---- MODULE Spec2Model ----
(***************************************************************************)
(* Extraction Orchestrator of ai-extraction-system: schema metrics and     *)
(* complexity analysis (utils.py, schema_analyzer.py), schema chunking,    *)
(* the extraction controller (extraction_engine.py) and the result merger  *)
(* (document_processor.py).                                                *)
(*                                                                         *)
(* Representation.  A Python dict is a sequence of <<key, value>> pairs in *)
(* insertion order (dicts iterate in insertion order).  A dot-delimited    *)
(* field path "g.h.d" is the sequence of its parts <<"g","h","d">>;        *)
(* property names are identifiers without dots, so str.split('.') and the  *)
(* f"{prefix}.{key}" join are Append/concatenation on these sequences.     *)
(* A schema node is a record                                               *)
(*   [type, required, ref, ifp, kw, hasProps, props]                       *)
(* type = "" when the node has no 'type' key, ref = <<>> when it has no    *)
(* '$ref' key (otherwise the path the pointer '#/g/c' names), ifp = <<>>   *)
(* when it has no 'if' key (otherwise the names under the 'properties' of  *)
(* its 'if' sub-schema), hasProps = ('properties' in node); kw holds the   *)
(* validation keywords, each <<>> when absent and <<value>> when present.  *)
(* A string that is inspected character by character is the sequence of    *)
(* its characters.                                                         *)
(***************************************************************************)
EXTENDS Integers, Sequences, FiniteSets, TLC

VARIABLES
    schema,                 \* the request's schema
    max_tokens_per_chunk,   \* SchemaAnalyzer.max_tokens_per_chunk
    pc,                     \* position of the running operation
    analysis,               \* value returned by analyze_complexity
    chunks,                 \* value returned by chunk_schema
    order,                  \* value returned by get_extraction_order
    levels,                 \* extract_hierarchical: levels
    todo,                   \* extract_complex: sorted_chunks
    idx,                    \* index of the next level / chunk of the loop
    result,                 \* extract_hierarchical: result; extract_complex: previous_results
    confidence_scores,      \* extract_hierarchical: confidence_scores
    total_tokens,           \* total_tokens of the running extraction
    results,                \* extract_complex: results
    calls,                  \* the oracle calls issued so far
    ret,                    \* value returned by extract / merge_extractions
    heap,                   \* merge_extractions: the dict objects, by reference
    chunk_results,          \* merge_extractions: the caller's list (references)
    merged_data,            \* merge_extractions: merged_data
    all_field_confidences,  \* merge_extractions: all_field_confidences
    field_occurrences,      \* merge_extractions: field_occurrences
    field_values,           \* merge_extractions: field_values
    original_text,          \* score_extraction: original_text
    validation,             \* answer of the schema validator for (result, schema)
    confidence_threshold,   \* ConfidenceScorer.confidence_threshold
    report,                 \* value returned by score_extraction
    review_threshold,       \* threshold given to get_review_candidates
    review_candidates,      \* value returned by get_review_candidates
    document_text,          \* chunk_document: text
    overlap_tokens,         \* DocumentProcessor.overlap_tokens
    sentences,              \* chunk_document: sentences
    text_chunks,            \* chunk_document: chunks
    sentence_chunk,         \* chunk_document: current_chunk
    sentence_tokens_sum,    \* chunk_document: current_tokens
    text_position,          \* chunk_document: text_position
    appended,               \* the sentences and sub-chunks added as new content so far
    complexity_metrics,     \* _calculate_complexity_score: metrics
    flattened_fields,       \* value returned by flatten_schema
    merge_operands          \* merge_dicts_deep: the three dicts merged in a row

analyzer_vars == <<analysis, chunks, order>>
engine_vars == <<levels, todo, idx, result, confidence_scores, total_tokens,
                 results, calls, ret>>
merge_vars == <<heap, chunk_results, merged_data, all_field_confidences,
                field_occurrences, field_values>>
scorer_vars == <<original_text, validation, confidence_threshold, report,
                 review_threshold, review_candidates>>
chunking_vars == <<document_text, overlap_tokens, sentences, text_chunks,
                   sentence_chunk, sentence_tokens_sum, text_position, appended>>
utils_vars == <<complexity_metrics, flattened_fields, merge_operands>>
aux_vars == <<scorer_vars, chunking_vars, utils_vars>>
vars == <<schema, max_tokens_per_chunk, pc, analyzer_vars, engine_vars, merge_vars,
          aux_vars>>

None == "None"

\* no chunk_document is running
ChunkingIdle ==
    /\ document_text = <<>>
    /\ overlap_tokens = 0
    /\ sentences = <<>>
    /\ text_chunks = <<>>
    /\ sentence_chunk = <<>>
    /\ sentence_tokens_sum = 0
    /\ text_position = 0
    /\ appended = <<>>

\* neither flatten_schema nor _calculate_complexity_score is called by itself
UtilsIdle ==
    /\ complexity_metrics = None
    /\ flattened_fields = None
    /\ merge_operands = <<>>

\* no score_extraction is running
ScorerIdle ==
    /\ original_text = <<>>
    /\ validation = None
    /\ confidence_threshold = None
    /\ report = None
    /\ review_threshold = None
    /\ review_candidates = None

\* ------------------------------------------------------------------ dicts

SeqRange(s) == {s[i] : i \in 1..Len(s)}

DictKeys(d) == [i \in 1..Len(d) |-> d[i][1]]

DictHas(d, k) == \E i \in 1..Len(d) : d[i][1] = k

DictGet(d, k) == d[CHOOSE i \in 1..Len(d) : d[i][1] = k][2]

\* d[k] = v: an existing key keeps its position, a new key goes last
DictSet(d, k, v) ==
    IF DictHas(d, k)
    THEN [i \in 1..Len(d) |-> IF d[i][1] = k THEN <<k, v>> ELSE d[i]]
    ELSE Append(d, <<k, v>>)

RECURSIVE DictUpdate(_, _)
\* d.update(e)
DictUpdate(d, e) ==
    IF e = <<>> THEN d
    ELSE DictUpdate(DictSet(d, e[1][1], e[1][2]), Tail(e))

RECURSIVE SumSeq(_)
SumSeq(s) == IF s = <<>> THEN 0 ELSE s[1] + SumSeq(Tail(s))

\* ------------------------------------------------------------ schema nodes

\* the validation keywords of a node, none of them present
NoKeywords ==
    [enum |-> <<>>, pattern |-> <<>>, minimum |-> <<>>, maximum |-> <<>>,
     exclusiveMinimum |-> <<>>, exclusiveMaximum |-> <<>>,
     minLength |-> <<>>, maxLength |-> <<>>]

LeafNode(type, required, ref, ifp) ==
    [type |-> type, required |-> required, ref |-> ref, ifp |-> ifp,
     kw |-> NoKeywords,
     hasProps |-> FALSE, props |-> <<>>]

\* {'type': 'object', 'properties': {}}
ObjectNode ==
    [type |-> "object", required |-> FALSE, ref |-> <<>>, ifp |-> <<>>,
     kw |-> NoKeywords,
     hasProps |-> TRUE, props |-> <<>>]

\* {'properties': {}}
PropertiesNode == [ObjectNode EXCEPT !.type = ""]

\* {}
EmptyNode == LeafNode("", FALSE, <<>>, <<>>)

\* ------------------------------------------------------------------ utils

\* count_tokens(json.dumps(x)): the tokenizer is an external pure function;
\* it is modelled as the number of lexical items of the serialized JSON
\* (two braces, and per key the key and its value).
RECURSIVE NodeTokens(_)
RECURSIVE PropsTokens(_)
NodeTokens(node) ==
    2 + (IF node.type # "" THEN 2 ELSE 0)
      + (IF node.required THEN 2 ELSE 0)
      + (IF node.ref # <<>> THEN 1 + Len(node.ref) ELSE 0)
      + (IF node.ifp # <<>> THEN 5 + 3 * Len(node.ifp) ELSE 0)
      + (IF node.hasProps THEN 3 + PropsTokens(node.props) ELSE 0)

PropsTokens(props) ==
    IF props = <<>> THEN 0
    ELSE 1 + NodeTokens(props[1][2]) + PropsTokens(Tail(props))

estimate_schema_tokens(node) == NodeTokens(node)

\* estimate_schema_tokens({field_path: field_schema})
estimate_field_tokens(field_path, field_schema) ==
    2 + Len(field_path) + NodeTokens(field_schema)

RECURSIVE flatten_schema(_, _)
RECURSIVE flatten_props(_, _, _)
flatten_schema(node, prefix) ==
    IF node.hasProps THEN flatten_props(node.props, prefix, <<>>) ELSE <<>>

\* the loop of flatten_schema over schema['properties'].items()
flatten_props(props, prefix, flattened) ==
    IF props = <<>> THEN flattened
    ELSE LET key == props[1][1]
             value == props[1][2]
             full_key == Append(prefix, key)
         IN flatten_props(Tail(props), prefix,
                IF value.hasProps
                THEN DictUpdate(flattened, flatten_schema(value, full_key))
                ELSE DictSet(flattened, full_key, value))

\* the field paths of a schema, as a set
FlatPathsOf(node) == SeqRange(DictKeys(flatten_schema(node, <<>>)))

RECURSIVE calculate_schema_depth(_, _)
RECURSIVE depth_props(_, _, _)
calculate_schema_depth(node, current_depth) ==
    IF node.hasProps THEN depth_props(node.props, current_depth, current_depth)
    ELSE current_depth

depth_props(props, current_depth, max_depth) ==
    IF props = <<>> THEN max_depth
    ELSE LET value == props[1][2]
             depth == calculate_schema_depth(value, current_depth + 1)
         IN depth_props(Tail(props), current_depth,
                IF value.hasProps /\ depth > max_depth THEN depth ELSE max_depth)

\* the objects among the node's own properties, nested ones left out
count_direct_objects(node) ==
    IF node.hasProps
    THEN Cardinality({i \in 1..Len(node.props) :
            node.props[i][2].type = "object" \/ node.props[i][2].hasProps})
    ELSE 0

RECURSIVE count_schema_objects(_)
RECURSIVE count_props(_)
count_schema_objects(node) ==
    IF node.hasProps THEN count_props(node.props) ELSE 0

count_props(props) ==
    IF props = <<>> THEN 0
    ELSE LET value == props[1][2]
         IN (IF value.type = "object" \/ value.hasProps
             THEN 1 + count_schema_objects(value) ELSE 0)
            + count_props(Tail(props))

RECURSIVE count_enum_values(_)
RECURSIVE enum_props(_)
\* count_enum_values(schema); the nodes here have no 'items'
count_enum_values(node) ==
    (IF node.kw.enum # <<>> THEN Len(node.kw.enum[1]) ELSE 0)
    + (IF node.hasProps THEN enum_props(node.props) ELSE 0)

enum_props(props) ==
    IF props = <<>> THEN 0
    ELSE count_enum_values(props[1][2]) + enum_props(Tail(props))

\* --------------------------------------------------------- SchemaAnalyzer

\* min(a, b) of two integers
min(a, b) == IF b < a THEN b ELSE a

\* the sum of the four contributions without their caps
uncapped_complexity_score(metrics) ==
    metrics.max_depth * 5 + metrics.object_count * 2
      + (metrics.total_fields * 5 + metrics.enum_complexity) \div 50

\* SchemaAnalyzer._calculate_complexity_score: total_fields / 10 and
\* enum_complexity / 50 are floats and are counted in fiftieths here; int()
\* of the sum, which is not negative, drops its fraction
calculate_complexity_score(metrics) ==
    LET depth_score == min(30, metrics.max_depth * 5)
        field_score == min(25 * 50, metrics.total_fields * 5)
        object_score == min(25, metrics.object_count * 2)
        enum_score == min(20 * 50, metrics.enum_complexity)
    IN depth_score + object_score + (field_score + enum_score) \div 50

determine_strategy_swapped(metrics, budget) ==
    IF metrics.max_depth > 1 \/ metrics.object_count > 1
    THEN "multi_pass_hierarchical"
    ELSE IF metrics.estimated_tokens > budget THEN "multi_pass_chunked"
    ELSE "single_pass"

determine_strategy(metrics, budget) ==
    IF metrics.estimated_tokens > budget THEN "multi_pass_chunked"
    ELSE IF metrics.max_depth > 1 \/ metrics.object_count > 1
    THEN "multi_pass_hierarchical"
    ELSE "single_pass"

\* 'required_fields' counts the entries of 'required' lists; 'required' is
\* a boolean of the node here, so the count is 0
schema_metrics(s) ==
    [max_depth |-> calculate_schema_depth(s, 0),
     total_fields |-> Len(flatten_schema(s, <<>>)),
     object_count |-> count_schema_objects(s),
     enum_complexity |-> count_enum_values(s),
     estimated_tokens |-> estimate_schema_tokens(s),
     required_fields |-> 0]

analyze_complexity(s, budget) ==
    LET metrics == schema_metrics(s)
    IN [metrics |-> metrics,
        complexity_score |-> calculate_complexity_score(metrics),
        strategy |-> determine_strategy(metrics, budget),
        needs_chunking |-> metrics.estimated_tokens > budget]

\* 'depends_on' of one field: SchemaAnalyzer._find_dependencies
find_dependencies(field_schema, all_fields) ==
    (IF field_schema.ref # <<>> /\ DictHas(all_fields, field_schema.ref)
     THEN <<field_schema.ref>> ELSE <<>>)
    \o [i \in 1..Len(field_schema.ifp) |-> <<field_schema.ifp[i]>>]

build_dependency_graph(s) ==
    LET flattened == flatten_schema(s, <<>>)
    IN [i \in 1..Len(flattened) |->
          <<flattened[i][1],
            [depends_on |-> find_dependencies(flattened[i][2], flattened),
             required |-> flattened[i][2].required]>>]

\* the nested function visit(field) of get_extraction_order; st holds the
\* closure's visited set and ordered_fields list, temp is temp_visited
RECURSIVE visit(_, _, _, _)
RECURSIVE visit_deps(_, _, _, _)
\* visit without its test of the visited set
visit_again(field, dependencies, st, temp) ==
    IF field \in temp THEN st
    ELSE LET deps == IF DictHas(dependencies, field)
                     THEN DictGet(dependencies, field).depends_on ELSE <<>>
             st1 == visit_deps(deps, dependencies, st, temp \cup {field})
         IN [visited |-> st1.visited \cup {field},
             ordered |-> Append(st1.ordered, field)]

visit(field, dependencies, st, temp) ==
    IF field \in temp THEN st
    ELSE IF field \in st.visited THEN st
    ELSE LET deps == IF DictHas(dependencies, field)
                     THEN DictGet(dependencies, field).depends_on ELSE <<>>
             st1 == visit_deps(deps, dependencies, st, temp \cup {field})
         IN [visited |-> st1.visited \cup {field},
             ordered |-> Append(st1.ordered, field)]

visit_deps(deps, dependencies, st, temp) ==
    IF deps = <<>> THEN st
    ELSE visit_deps(Tail(deps), dependencies,
            IF DictHas(dependencies, deps[1])
            THEN visit(deps[1], dependencies, st, temp) ELSE st,
            temp)

RECURSIVE extraction_loop(_, _, _)
\* for field in dependencies: if field not in visited: visit(field)
extraction_loop(fields, dependencies, st) ==
    IF fields = <<>> THEN st
    ELSE extraction_loop(Tail(fields), dependencies,
            IF fields[1] \notin st.visited
            THEN visit(fields[1], dependencies, st, {}) ELSE st)

\* the fields in the order flatten_schema declares them
declaration_order(s) == DictKeys(flatten_schema(s, <<>>))

get_extraction_order(s) ==
    LET dependencies == build_dependency_graph(s)
    IN extraction_loop(DictKeys(dependencies), dependencies,
                       [visited |-> {}, ordered |-> <<>>]).ordered

RECURSIVE get_field_schema(_, _)
get_field_schema(current, field_parts) ==
    IF field_parts = <<>> THEN current
    ELSE IF current.hasProps /\ DictHas(current.props, field_parts[1])
    THEN get_field_schema(DictGet(current.props, field_parts[1]), Tail(field_parts))
    ELSE EmptyNode

RECURSIVE add_field_to_chunk(_, _, _)
\* add_field_to_chunk without the test "part not in current['properties']":
\* every descent starts the intermediate object afresh
add_field_fresh_parent(current, field_parts, field_schema) ==
    LET cur == IF current.hasProps THEN current
               ELSE [current EXCEPT !.hasProps = TRUE, !.props = <<>>]
    IN IF Len(field_parts) = 1
       THEN [cur EXCEPT !.props = DictSet(cur.props, field_parts[1], field_schema)]
       ELSE [cur EXCEPT !.props = DictSet(cur.props, field_parts[1],
                add_field_to_chunk(ObjectNode, Tail(field_parts), field_schema))]

add_field_to_chunk(current, field_parts, field_schema) ==
    LET cur == IF current.hasProps THEN current
               ELSE [current EXCEPT !.hasProps = TRUE, !.props = <<>>]
    IN IF Len(field_parts) = 1
       THEN [cur EXCEPT !.props = DictSet(cur.props, field_parts[1], field_schema)]
       ELSE LET part == field_parts[1]
                child == IF DictHas(cur.props, part)
                         THEN DictGet(cur.props, part) ELSE ObjectNode
            IN [cur EXCEPT !.props = DictSet(cur.props, part,
                    add_field_to_chunk(child, Tail(field_parts), field_schema))]

\* every dependency of the chunk's fields, members of the chunk included
all_member_dependencies(chunk, dependencies) ==
    LET chunk_fields == SeqRange(DictKeys(flatten_schema(chunk, <<>>)))
    IN UNION {SeqRange(DictGet(dependencies, f).depends_on) :
                f \in {g \in chunk_fields : DictHas(dependencies, g)}}

get_chunk_dependencies(chunk, dependencies) ==
    LET chunk_fields == SeqRange(DictKeys(flatten_schema(chunk, <<>>)))
    IN {dep \in UNION {SeqRange(DictGet(dependencies, f).depends_on) :
                        f \in {g \in chunk_fields : DictHas(dependencies, g)}} :
          dep \notin chunk_fields}

calculate_chunk_priority(chunk, dependencies) ==
    LET chunk_fields == DictKeys(flatten_schema(chunk, <<>>))
        required_count ==
            Cardinality({i \in 1..Len(chunk_fields) :
                DictHas(dependencies, chunk_fields[i])
                /\ DictGet(dependencies, chunk_fields[i]).required})
    IN IF 10 * required_count > 7 * Len(chunk_fields) THEN "high"
       ELSE IF 10 * required_count > 3 * Len(chunk_fields) THEN "medium"
       ELSE "low"

\* one entry of the chunk list, total_chunks still 0
chunk_entry(current_chunk, chunk_id, dependencies) ==
    [schema |-> current_chunk,
     chunk_id |-> chunk_id,
     total_chunks |-> 0,
     dependencies |-> get_chunk_dependencies(current_chunk, dependencies),
     priority |-> calculate_chunk_priority(current_chunk, dependencies)]

RECURSIVE chunk_loop_late_close(_, _, _, _, _)
\* the loop closing a chunk only once its own tokens exceed the limit
chunk_loop_late_close(ordered_fields, s, dependencies, max_tokens, st) ==
    IF ordered_fields = <<>> THEN st
    ELSE LET field_path == ordered_fields[1]
             field_schema == get_field_schema(s, field_path)
             field_tokens == estimate_field_tokens(field_path, field_schema)
             close == st.current_tokens > max_tokens
                      /\ st.current_chunk.props # <<>>
             st1 == IF close
                    THEN [chunks |-> Append(st.chunks,
                              chunk_entry(st.current_chunk, st.chunk_id, dependencies)),
                          current_chunk |-> PropertiesNode,
                          current_tokens |-> 0,
                          chunk_id |-> st.chunk_id + 1]
                    ELSE st
         IN chunk_loop_late_close(Tail(ordered_fields), s, dependencies, max_tokens,
                [st1 EXCEPT
                    !.current_chunk = add_field_to_chunk(@, field_path, field_schema),
                    !.current_tokens = @ + field_tokens])

RECURSIVE chunk_loop(_, _, _, _, _)
\* the loop of _create_dependency_chunks over ordered_fields; st holds
\* chunks, current_chunk, current_tokens and chunk_id
chunk_loop(ordered_fields, s, dependencies, max_tokens, st) ==
    IF ordered_fields = <<>> THEN st
    ELSE LET field_path == ordered_fields[1]
             field_schema == get_field_schema(s, field_path)
             field_tokens == estimate_field_tokens(field_path, field_schema)
             close == st.current_tokens + field_tokens > max_tokens
                      /\ st.current_chunk.props # <<>>
             st1 == IF close
                    THEN [chunks |-> Append(st.chunks,
                              chunk_entry(st.current_chunk, st.chunk_id, dependencies)),
                          current_chunk |-> PropertiesNode,
                          current_tokens |-> 0,
                          chunk_id |-> st.chunk_id + 1]
                    ELSE st
         IN chunk_loop(Tail(ordered_fields), s, dependencies, max_tokens,
                [st1 EXCEPT
                    !.current_chunk = add_field_to_chunk(@, field_path, field_schema),
                    !.current_tokens = @ + field_tokens])

create_dependency_chunks(s, dependencies, max_tokens) ==
    LET st == chunk_loop(get_extraction_order(s), s, dependencies, max_tokens,
                  [chunks |-> <<>>, current_chunk |-> PropertiesNode,
                   current_tokens |-> 0, chunk_id |-> 0])
        all == IF st.current_chunk.props # <<>>
               THEN Append(st.chunks,
                        chunk_entry(st.current_chunk, st.chunk_id, dependencies))
               ELSE st.chunks
    IN [i \in 1..Len(all) |-> [all[i] EXCEPT !.total_chunks = Len(all)]]

chunk_schema(s, max_tokens) ==
    IF estimate_schema_tokens(s) <= max_tokens
    THEN <<[schema |-> s, chunk_id |-> 0, total_chunks |-> 1,
            dependencies |-> {}, priority |-> "high"]>>
    ELSE create_dependency_chunks(s, build_dependency_graph(s), max_tokens)


\* ------------------------------------------------------------- JSON values
\* A JSON value is tagged with its Python type: t is "none", "bool", "int",
\* "str", "list" or "dict", v is the value (for a dict the sequence of its
\* <<key, value>> pairs).  Functions that take a dict take that sequence.

NoneValue == [t |-> "none", v |-> 0]
JBool(b) == [t |-> "bool", v |-> b]
JInt(n) == [t |-> "int", v |-> n]
JStr(x) == [t |-> "str", v |-> x]
JList(l) == [t |-> "list", v |-> l]
JDict(d) == [t |-> "dict", v |-> d]

IsDict(x) == x.t = "dict"

\* the operands of Python's == on JSON scalars: True is 1 and False is 0
py_num(x) == IF x.t = "bool" THEN (IF x.v THEN 1 ELSE 0) ELSE x.v

RECURSIVE py_eq(_, _)
\* Python's == on JSON values
py_eq(a, b) ==
    IF a.t \in {"bool", "int"} /\ b.t \in {"bool", "int"}
    THEN py_num(a) = py_num(b)
    ELSE IF a.t # b.t THEN FALSE
    ELSE IF a.t = "list"
    THEN /\ Len(a.v) = Len(b.v)
         /\ \A i \in 1..Len(a.v) : py_eq(a.v[i], b.v[i])
    ELSE a.v = b.v

\* what an operation on operands of the wrong type raises
TypeError == [t |-> "TypeError", v |-> 0]

\* a keyword of a field schema: present, and its value
Has(keyword) == keyword # <<>>
Val(keyword) == keyword[1]

\* str.lower() on the letters of the inputs
lower_char(c) ==
    CASE c = "A" -> "a"
      [] c = "B" -> "b"
      [] OTHER -> c

lower(x) == [i \in 1..Len(x) |-> lower_char(x[i])]

\* needle in haystack, for strings
contains(haystack, needle) ==
    \E i \in 0..(Len(haystack) - Len(needle)) :
        SubSeq(haystack, i + 1, i + Len(needle)) = needle

RECURSIVE split_words(_, _)
\* str.split(): the maximal runs of characters other than whitespace; word
\* is the run being read
split_words(x, word) ==
    IF x = <<>> THEN (IF word = <<>> THEN <<>> ELSE <<word>>)
    ELSE IF x[1] = " "
    THEN (IF word = <<>> THEN <<>> ELSE <<word>>) \o split_words(Tail(x), <<>>)
    ELSE split_words(Tail(x), Append(word, x[1]))

split(x) == split_words(x, <<>>)

\* re.match(pattern, x) for a pattern of literal characters: x starts with
\* them
re_match(pattern, x) ==
    Len(pattern) <= Len(x) /\ SubSeq(x, 1, Len(pattern)) = pattern

RECURSIVE digits(_)
\* the decimal digits of a natural number
digits(n) ==
    LET digit == <<"0", "1", "2", "3", "4", "5", "6", "7", "8", "9">>[(n % 10) + 1]
    IN IF n < 10 THEN <<digit>> ELSE Append(digits(n \div 10), digit)

\* str(value) of a scalar
py_str(value) ==
    CASE value.t = "str" -> value.v
      [] value.t = "bool" -> IF value.v THEN <<"T", "r", "u", "e">>
                             ELSE <<"F", "a", "l", "s", "e">>
      [] value.t = "int" -> IF value.v < 0 THEN <<"-">> \o digits(-value.v)
                            ELSE digits(value.v)
      [] OTHER -> <<"N", "o", "n", "e">>

RECURSIVE get_nested(_, _, _)
get_nested(current, keys, default) ==
    IF keys = <<>> THEN current
    ELSE IF IsDict(current) /\ DictHas(current.v, keys[1])
    THEN get_nested(DictGet(current.v, keys[1]), Tail(keys), default)
    ELSE default

\* utils.get_nested_value(data, path), default None
get_nested_value(data, path) == get_nested(JDict(data), path, NoneValue)

RECURSIVE merge_dicts_deep(_, _)
\* utils.merge_dicts_deep
merge_dicts_deep(dict1, dict2) ==
    IF dict2 = <<>> THEN dict1
    ELSE LET key == dict2[1][1]
             value == dict2[1][2]
             merged == IF DictHas(dict1, key) /\ IsDict(DictGet(dict1, key))
                          /\ IsDict(value)
                       THEN JDict(merge_dicts_deep(DictGet(dict1, key).v, value.v))
                       ELSE value
         IN merge_dicts_deep(DictSet(dict1, key, merged), Tail(dict2))

\* ------------------------------------------------------- ExtractionEngine

\* Scores are kept in thousandths: 1.0 is 1000.
\* a quotient sum / count that Python computes in floating point
Frac(num, den) == [num |-> num, den |-> den]

validate_type(value, expected_type) ==
    CASE expected_type = "string" -> value.t = "str"
      [] expected_type = "number" -> value.t \in {"int", "bool"}
      [] expected_type = "integer" -> value.t \in {"int", "bool"}
      [] expected_type = "boolean" -> value.t = "bool"
      [] expected_type = "array" -> value.t = "list"
      [] expected_type = "object" -> value.t = "dict"
      [] expected_type = "null" -> value.t = "none"
      [] OTHER -> TRUE

\* the comparisons of _calculate_field_confidence with a minimum or maximum
\* raise a TypeError: the value is no number
field_confidence_raises(data, field_path, field_schema) ==
    LET field_value == get_nested_value(data, field_path)
    IN /\ field_value.t \notin {"none", "int", "bool"}
       /\ field_schema.type \in {"number", "integer"}
       /\ Has(field_schema.kw.minimum) \/ Has(field_schema.kw.maximum)

\* ExtractionEngine._calculate_field_confidence, in thousandths, where it
\* does not raise
calculate_field_confidence(data, field_path, field_schema) ==
    LET field_value == get_nested_value(data, field_path)
        expected_type == field_schema.type
        kw == field_schema.kw
        numeric == expected_type \in {"number", "integer"}
        c1 == IF expected_type # "" /\ ~validate_type(field_value, expected_type)
              THEN 600 ELSE 1000
        c2 == IF Has(kw.enum)
                 /\ ~\E i \in 1..Len(Val(kw.enum)) : py_eq(field_value, Val(kw.enum)[i])
              THEN (c1 * 4) \div 10 ELSE c1
        c3 == IF expected_type = "string" /\ Has(kw.pattern)
                 /\ ~re_match(Val(kw.pattern), py_str(field_value))
              THEN (c2 * 7) \div 10 ELSE c2
        c4 == IF numeric /\ Has(kw.minimum) /\ py_num(field_value) < Val(kw.minimum)
              THEN c3 \div 2 ELSE c3
        c5 == IF numeric /\ Has(kw.maximum) /\ py_num(field_value) > Val(kw.maximum)
              THEN c4 \div 2 ELSE c4
    IN IF field_value.t = "none"
       THEN (IF field_schema.required THEN 0 ELSE 500)
       ELSE c5

\* ExtractionEngine.calculate_confidence, is_valid being the answer of the
\* external schema validator
calculate_confidence(data, s, is_valid) ==
    LET flattened_schema == flatten_schema(s, <<>>)
        field_confidences ==
            [i \in 1..Len(flattened_schema) |->
                <<flattened_schema[i][1],
                  calculate_field_confidence(data, flattened_schema[i][1],
                                             flattened_schema[i][2])>>]
        scores == [i \in 1..Len(field_confidences) |-> field_confidences[i][2]]
        base_confidence == IF is_valid THEN 800 ELSE 300
    IN << <<"overall", IF field_confidences # <<>>
                       THEN Frac(SumSeq(scores), Len(scores))
                       ELSE Frac(base_confidence, 1)>>,
          <<"fields", field_confidences>>,
          <<"schema_valid", is_valid>>,
          <<"validation_error", IF is_valid THEN "None" ELSE "ValidationError">> >>

\* {'overall': 0.0, 'fields': {}}
ZeroConfidence == << <<"overall", Frac(0, 1)>>, <<"fields", <<>> >> >>

\* sum(scores.values()) / len(scores) if scores else 0.0
overall_confidence(scores) ==
    IF scores # <<>>
    THEN Frac(SumSeq([i \in 1..Len(scores) |-> scores[i][2]]), Len(scores))
    ELSE Frac(0, 1)

RECURSIVE group_fields_by_level(_, _)
\* ExtractionEngine._group_fields_by_level: lvls is a dict keyed by
\* field.count('.') in order of first appearance
group_fields_by_level(extraction_order, lvls) ==
    IF extraction_order = <<>> THEN lvls
    ELSE LET field == extraction_order[1]
             level == Len(field) - 1
             sofar == IF DictHas(lvls, level) THEN DictGet(lvls, level) ELSE <<>>
         IN group_fields_by_level(Tail(extraction_order),
                DictSet(lvls, level, Append(sofar, field)))

RECURSIVE level_navigate(_, _, _, _)
\* the body of _build_level_schema's loop for one field: walks parts[:-1]
\* through the full schema, creating the objects in the level schema, then
\* copies the field's schema
level_navigate(current_schema, current_level, parts, last) ==
    IF parts = <<>>
    THEN IF current_schema.hasProps /\ DictHas(current_schema.props, last)
         THEN [current_level EXCEPT !.hasProps = TRUE,
                 !.props = DictSet(current_level.props, last,
                                   DictGet(current_schema.props, last))]
         ELSE current_level
    ELSE IF current_schema.hasProps /\ DictHas(current_schema.props, parts[1])
    THEN LET cur == [current_level EXCEPT !.hasProps = TRUE]
             child == IF DictHas(cur.props, parts[1])
                      THEN DictGet(cur.props, parts[1]) ELSE ObjectNode
         IN [cur EXCEPT !.props = DictSet(cur.props, parts[1],
                level_navigate(DictGet(current_schema.props, parts[1]), child,
                               Tail(parts), last))]
    ELSE level_navigate(current_schema, current_level, Tail(parts), last)

RECURSIVE build_level_schema_from(_, _, _)
build_level_schema_from(full_schema, fields, level_schema) ==
    IF fields = <<>> THEN level_schema
    ELSE build_level_schema_from(full_schema, Tail(fields),
            level_navigate(full_schema, level_schema,
                SubSeq(fields[1], 1, Len(fields[1]) - 1), fields[1][Len(fields[1])]))

build_level_schema(full_schema, fields) ==
    build_level_schema_from(full_schema, fields, ObjectNode)

RECURSIVE chunk_context_data(_, _, _)
chunk_context_data(previous_results, dependencies, context_data) ==
    IF dependencies = <<>> THEN context_data
    ELSE LET value == get_nested_value(previous_results, dependencies[1])
         IN chunk_context_data(previous_results, Tail(dependencies),
                IF value.t # "none"
                THEN DictSet(context_data, dependencies[1], value)
                ELSE context_data)

RECURSIVE SetToSeq(_)
\* list(a_set): some order of the elements
SetToSeq(S) ==
    IF S = {} THEN <<>>
    ELSE LET x == CHOOSE y \in S : TRUE IN <<x>> \o SetToSeq(S \ {x})

\* ExtractionEngine._build_chunk_context: the context_data dumped into the
\* prompt, <<>> when the context string is empty
build_chunk_context(previous_results, dependencies) ==
    IF previous_results = <<>> \/ dependencies = {} THEN <<>>
    ELSE chunk_context_data(previous_results, SetToSeq(dependencies), <<>>)

PriorityRank(priority) ==
    CASE priority = "high" -> 0 [] priority = "medium" -> 1 [] priority = "low" -> 2

\* the chunks in their given order: extract_complex without the sort
unsorted_chunks(schema_chunks) == schema_chunks

\* sorted(schema_chunks, key=priority rank): the sort is stable
sorted_chunks(schema_chunks) ==
    LET pick(r) == {i \in 1..Len(schema_chunks) :
                      PriorityRank(schema_chunks[i].priority) = r}
        sel(r) == [k \in 1..Cardinality(pick(r)) |->
                     schema_chunks[CHOOSE i \in pick(r) :
                         Cardinality({j \in pick(r) : j < i}) = k - 1]]
    IN sel(0) \o sel(1) \o sel(2)

\* ----------------------------------------------------------------- inputs

MaxFields == 3
BudgetStep == 15
MaxBudgetSteps == 3

TokenBudgets == {k * BudgetStep : k \in 1..MaxBudgetSteps}

FieldPaths == {<<"a">>, <<"b">>, <<"g", "c">>, <<"g", "h", "d">>}

StringLeaf == LeafNode("string", FALSE, <<>>, <<>>)
RequiredLeaf == LeafNode("string", TRUE, <<>>, <<>>)
RefLeaf == LeafNode("string", FALSE, <<"a">>, <<>>)
RequiredRefLeaf == LeafNode("string", TRUE, <<"g", "c">>, <<>>)
IfLeaf == LeafNode("string", FALSE, <<>>, <<"b", "z">>)
\* {'type': 'object'}: an object-typed node without 'properties'
BareObjectLeaf == LeafNode("object", FALSE, <<>>, <<>>)

LeafKinds == {StringLeaf, RequiredLeaf, RefLeaf, RequiredRefLeaf, IfLeaf}

\* what may be declared at a path: a leaf, and at "b" also an object-typed
\* node without properties or an object with no properties at all
KindsAt(path) ==
    IF path = <<"b">> THEN LeafKinds \cup {BareObjectLeaf, ObjectNode}
    ELSE LeafKinds

\* declarations: distinct paths in declaration order, each with its node
Declarations(maxFields, kinds) ==
    UNION {
      {d \in [1..n -> FieldPaths \X (UNION {kinds[p] : p \in FieldPaths})] :
          /\ \A i \in 1..n : d[i][2] \in kinds[d[i][1]]
          /\ \A i, j \in 1..n : i # j => d[i][1] # d[j][1]}
      : n \in 1..maxFields}

RECURSIVE DeclareAt(_, _, _)
\* the schema with node declared at path, parents created in place
DeclareAt(current, path, node) ==
    IF Len(path) = 1
    THEN [current EXCEPT !.props = DictSet(current.props, path[1], node)]
    ELSE LET child == IF DictHas(current.props, path[1])
                      THEN DictGet(current.props, path[1]) ELSE ObjectNode
         IN [current EXCEPT !.props =
                DictSet(current.props, path[1], DeclareAt(child, Tail(path), node))]

RECURSIVE MakeSchema(_)
MakeSchema(decl) ==
    IF decl = <<>> THEN ObjectNode
    ELSE DeclareAt(MakeSchema(SubSeq(decl, 1, Len(decl) - 1)),
                   decl[Len(decl)][1], decl[Len(decl)][2])

Schemas == {MakeSchema(d) : d \in Declarations(MaxFields, [p \in FieldPaths |-> KindsAt(p)])}

MaxRequestFields == 3

\* what the schemas given to extract declare
RequestKindsAt(path) ==
    CASE path = <<"a">> -> {StringLeaf, RequiredLeaf}
      [] path = <<"g", "h", "d">> -> {StringLeaf, RefLeaf}
      [] path = <<"b">> -> {StringLeaf, RequiredLeaf, RefLeaf, RequiredRefLeaf}
      [] OTHER -> {StringLeaf, RequiredLeaf, RefLeaf}

RequestSchemas ==
    {MakeSchema(d) :
        d \in Declarations(MaxRequestFields, [p \in FieldPaths |-> RequestKindsAt(p)])}

\* ------------------------------------------------- schema analysis: actions

InitSchema ==
    /\ UtilsIdle
    /\ ChunkingIdle
    /\ ScorerIdle
    /\ schema \in Schemas
    /\ max_tokens_per_chunk \in TokenBudgets
    /\ pc = "idle"
    /\ analysis = None
    /\ chunks = None
    /\ order = None
    /\ levels = <<>>
    /\ todo = <<>>
    /\ idx = 1
    /\ result = <<>>
    /\ confidence_scores = <<>>
    /\ total_tokens = 0
    /\ results = <<>>
    /\ calls = <<>>
    /\ ret = None
    /\ heap = <<>>
    /\ chunk_results = <<>>
    /\ merged_data = <<>>
    /\ all_field_confidences = <<>>
    /\ field_occurrences = <<>>
    /\ field_values = <<>>

\* SchemaAnalyzer.analyze_complexity(schema)
AnalyzeComplexity ==
    /\ pc = "idle"
    /\ analysis' = analyze_complexity(schema, max_tokens_per_chunk)
    /\ pc' = "analyzed"
    /\ UNCHANGED <<aux_vars, merge_vars, schema, max_tokens_per_chunk, chunks, order, engine_vars>>

\* SchemaAnalyzer.chunk_schema(schema, max_tokens=None)
ChunkSchema ==
    /\ pc = "idle"
    /\ chunks' = chunk_schema(schema, max_tokens_per_chunk)
    /\ pc' = "chunked"
    /\ UNCHANGED <<aux_vars, merge_vars, schema, max_tokens_per_chunk, analysis, order, engine_vars>>

\* SchemaAnalyzer.get_extraction_order(schema)
GetExtractionOrder ==
    /\ pc = "idle"
    /\ order' = get_extraction_order(schema)
    /\ pc' = "ordered"
    /\ UNCHANGED <<aux_vars, merge_vars, schema, max_tokens_per_chunk, analysis, chunks, engine_vars>>

NextSchema == AnalyzeComplexity \/ ChunkSchema \/ GetExtractionOrder

SpecSchema == InitSchema /\ [][NextSchema]_vars


\* ------------------------------------------------------- extract: actions

UsageTokens == 5

\* What one oracle call can bring.  kind "call_error": the API call raises.
\* Otherwise content is the message text: "garbage" is not JSON, the others
\* parse to the object ReplyData gives; usage is response.usage.total_tokens
\* (None when the response carries no usage); validator is what the schema
\* validator does with the parsed object ("schema_error": it raises something
\* other than ValidationError).
OracleReplies ==
    {[kind |-> "call_error", content |-> "", usage |-> None, validator |-> ""],
     [kind |-> "ok", content |-> "garbage", usage |-> JInt(UsageTokens), validator |-> ""],
     [kind |-> "ok", content |-> "fill_text", usage |-> JInt(UsageTokens), validator |-> "valid"],
     [kind |-> "ok", content |-> "stray", usage |-> JInt(UsageTokens), validator |-> "invalid"],
     [kind |-> "ok", content |-> "empty", usage |-> NoneValue, validator |-> "valid"],
     [kind |-> "ok", content |-> "fill_text", usage |-> JInt(UsageTokens), validator |-> "schema_error"]}

RECURSIVE Fill(_, _)
\* an object shaped like the requested schema, every leaf holding value
Fill(props, value) ==
    IF props = <<>> THEN <<>>
    ELSE <<<<props[1][1],
             IF props[1][2].hasProps THEN JDict(Fill(props[1][2].props, value))
             ELSE value>>>> \o Fill(Tail(props), value)

\* an object that ignores the requested schema
StrayData == << <<"a", JStr("x")>>, <<"g", JInt(7)>> >>

ReplyData(reply, request_schema) ==
    CASE reply.content = "fill_text" -> Fill(request_schema.props, JStr("v"))
      [] reply.content = "stray" -> StrayData
      [] reply.content = "empty" -> <<>>

\* response.usage.total_tokens if response.usage else 0
usage_tokens(reply) == IF reply.usage.t = "none" THEN 0 ELSE reply.usage.v

\* where the try block of an extraction is left: "call" and "parse" before
\* anything is computed, "score" inside calculate_confidence, "" not at all
FailsAt(reply) ==
    IF reply.kind = "call_error" THEN "call"
    ELSE IF reply.content = "garbage" THEN "parse"
    ELSE IF reply.validator = "schema_error" THEN "score"
    ELSE ""

\* a loop whose except clause leaves the loop instead of going on
loop_break(i, n, reply) ==
    IF FailsAt(reply) # "" THEN n + 1 ELSE i + 1

\* the index the loops of extract_hierarchical and extract_complex go on
\* with: the except clauses print (or record) and continue
loop_continue(i, n, reply) == i + 1

InitExtract ==
    /\ UtilsIdle
    /\ ChunkingIdle
    /\ ScorerIdle
    /\ schema \in RequestSchemas
    /\ max_tokens_per_chunk \in TokenBudgets
    /\ pc = "idle"
    /\ analysis = None
    /\ chunks = None
    /\ order = None
    /\ levels = <<>>
    /\ todo = <<>>
    /\ idx = 1
    /\ result = <<>>
    /\ confidence_scores = <<>>
    /\ total_tokens = 0
    /\ results = <<>>
    /\ calls = <<>>
    /\ ret = None
    /\ heap = <<>>
    /\ chunk_results = <<>>
    /\ merged_data = <<>>
    /\ all_field_confidences = <<>>
    /\ field_occurrences = <<>>
    /\ field_values = <<>>

\* ExtractionEngine.extract up to the first oracle call
Extract ==
    /\ pc = "idle"
    /\ LET a == analyze_complexity(schema, max_tokens_per_chunk)
       IN /\ analysis' = a
          /\ IF a.strategy = "single_pass"
             THEN /\ pc' = "simple"
                  /\ UNCHANGED <<order, levels, chunks, todo>>
             ELSE IF a.strategy = "multi_pass_hierarchical"
             THEN /\ pc' = "hierarchical"
                  /\ order' = get_extraction_order(schema)
                  /\ levels' = group_fields_by_level(order', <<>>)
                  /\ UNCHANGED <<chunks, todo>>
             ELSE /\ pc' = "complex"
                  /\ chunks' = chunk_schema(schema, max_tokens_per_chunk)
                  /\ todo' = sorted_chunks(chunks')
                  /\ UNCHANGED <<order, levels>>
    /\ UNCHANGED <<aux_vars, merge_vars, schema, max_tokens_per_chunk, idx, result, confidence_scores,
                   total_tokens, results, calls, ret>>

\* the result extract_simple returns for one reply
extract_simple(s, reply) ==
    IF FailsAt(reply) = ""
    THEN << <<"data", ReplyData(reply, s)>>,
            <<"confidence", calculate_confidence(ReplyData(reply, s), s,
                                                 reply.validator = "valid")>>,
            <<"strategy", "single_pass">>,
            <<"token_usage", usage_tokens(reply)>> >>
    ELSE << <<"data", <<>> >>,
            <<"confidence", ZeroConfidence>>,
            <<"error", FailsAt(reply)>>,
            <<"strategy", "single_pass">> >>

\* ExtractionEngine.extract_simple
ExtractSimple ==
    /\ pc = "simple"
    /\ \E reply \in OracleReplies :
         /\ calls' = Append(calls, [unit |-> 0, fields |-> FlatPathsOf(schema),
                                    context |-> <<>>, reply |-> reply])
         /\ ret' = extract_simple(schema, reply)
    /\ pc' = "returned"
    /\ UNCHANGED <<aux_vars, merge_vars, schema, max_tokens_per_chunk, analyzer_vars, levels, todo, idx,
                   result, confidence_scores, total_tokens, results>>

\* one pass of the loop of extract_hierarchical; acc holds result,
\* confidence_scores and total_tokens
hierarchical_level(acc, level_schema, reply) ==
    IF FailsAt(reply) \in {"call", "parse"} THEN acc
    ELSE LET level_result == ReplyData(reply, level_schema)
             merged == merge_dicts_deep(acc.result, level_result)
         IN IF FailsAt(reply) = "score"
            THEN [acc EXCEPT !.result = merged]
            ELSE LET level_confidence ==
                         calculate_confidence(level_result, level_schema,
                                              reply.validator = "valid")
                 IN [result |-> merged,
                     confidence_scores |->
                         DictUpdate(acc.confidence_scores,
                                    DictGet(level_confidence, "fields")),
                     total_tokens |-> acc.total_tokens + usage_tokens(reply)]

\* extract_hierarchical: the oracle call of the next level
HierarchicalLevel ==
    /\ pc = "hierarchical"
    /\ idx <= Len(levels)
    /\ \E reply \in OracleReplies :
         LET level == levels[idx][1]
             level_schema == build_level_schema(schema, levels[idx][2])
             acc == hierarchical_level(
                        [result |-> result, confidence_scores |-> confidence_scores,
                         total_tokens |-> total_tokens], level_schema, reply)
         IN /\ calls' = Append(calls, [unit |-> level,
                                       fields |-> FlatPathsOf(level_schema),
                                       context |-> result, reply |-> reply])
            /\ result' = acc.result
            /\ confidence_scores' = acc.confidence_scores
            /\ total_tokens' = acc.total_tokens
            /\ idx' = loop_continue(idx, Len(levels), reply)
    /\ UNCHANGED <<aux_vars, merge_vars, schema, max_tokens_per_chunk, pc, analyzer_vars, levels, todo,
                   results, ret>>

\* extract_hierarchical: after the loop
HierarchicalReturn ==
    /\ pc = "hierarchical"
    /\ idx > Len(levels)
    /\ ret' = << <<"data", result>>,
                 <<"confidence", << <<"overall", overall_confidence(confidence_scores)>>,
                                    <<"fields", confidence_scores>> >> >>,
                 <<"strategy", "multi_pass_hierarchical">>,
                 <<"token_usage", total_tokens>> >>
    /\ pc' = "returned"
    /\ UNCHANGED <<aux_vars, merge_vars, schema, max_tokens_per_chunk, analyzer_vars, levels, todo, idx,
                   result, confidence_scores, total_tokens, results, calls>>

\* the entry one pass of the loop of extract_complex appends to results
complex_chunk_entry(chunk_info, reply) ==
    IF FailsAt(reply) = ""
    THEN << <<"data", ReplyData(reply, chunk_info.schema)>>,
            <<"confidence", calculate_confidence(ReplyData(reply, chunk_info.schema),
                                chunk_info.schema, reply.validator = "valid")>>,
            <<"chunk_id", chunk_info.chunk_id>>,
            <<"priority", chunk_info.priority>> >>
    ELSE << <<"data", <<>> >>,
            <<"confidence", ZeroConfidence>>,
            <<"chunk_id", chunk_info.chunk_id>>,
            <<"error", FailsAt(reply)>> >>

\* extract_complex: the oracle call of the next chunk
ComplexChunk ==
    /\ pc = "complex"
    /\ idx <= Len(todo)
    /\ \E reply \in OracleReplies :
         LET chunk_info == todo[idx]
         IN /\ calls' = Append(calls,
                   [unit |-> chunk_info.chunk_id,
                    fields |-> FlatPathsOf(chunk_info.schema),
                    context |-> build_chunk_context(result, chunk_info.dependencies),
                    reply |-> reply])
            /\ results' = Append(results, complex_chunk_entry(chunk_info, reply))
            /\ IF FailsAt(reply) = ""
               THEN /\ result' = merge_dicts_deep(result,
                                     ReplyData(reply, chunk_info.schema))
                    /\ total_tokens' = total_tokens + usage_tokens(reply)
               ELSE UNCHANGED <<result, total_tokens>>
            /\ idx' = loop_continue(idx, Len(todo), reply)
    /\ UNCHANGED <<aux_vars, merge_vars, schema, max_tokens_per_chunk, pc, analyzer_vars, levels, todo,
                   confidence_scores, ret>>

RECURSIVE merge_results(_, _)
\* the loop "for result in results" of extract_complex; acc holds
\* merged_data and all_field_confidences
merge_results(rs, acc) ==
    IF rs = <<>> THEN acc
    ELSE merge_results(Tail(rs),
            [merged_data |-> merge_dicts_deep(acc.merged_data, DictGet(rs[1], "data")),
             all_field_confidences |->
                 DictUpdate(acc.all_field_confidences,
                            DictGet(DictGet(rs[1], "confidence"), "fields"))])

\* extract_complex: after the loop
ComplexReturn ==
    /\ pc = "complex"
    /\ idx > Len(todo)
    /\ LET m == merge_results(results,
                    [merged_data |-> <<>>, all_field_confidences |-> <<>>])
       IN ret' = << <<"data", m.merged_data>>,
                    <<"confidence",
                      << <<"overall", overall_confidence(m.all_field_confidences)>>,
                         <<"fields", m.all_field_confidences>> >> >>,
                    <<"strategy", "multi_pass_chunked">>,
                    <<"token_usage", total_tokens>>,
                    <<"chunk_results", results>> >>
    /\ pc' = "returned"
    /\ UNCHANGED <<aux_vars, merge_vars, schema, max_tokens_per_chunk, analyzer_vars, levels, todo, idx,
                   result, confidence_scores, total_tokens, results, calls>>

Next ==
    \/ Extract
    \/ ExtractSimple
    \/ HierarchicalLevel
    \/ HierarchicalReturn
    \/ ComplexChunk
    \/ ComplexReturn

Spec == InitExtract /\ [][Next]_vars

\* ------------------------------------------------------ DocumentProcessor

\* d.get(key, default)
dict_get(d, key, default) == IF DictHas(d, key) THEN DictGet(d, key) ELSE default

RECURSIVE set_nested(_, _, _)
\* the loop and the final assignment of utils.set_nested_value on the tagged
\* value current: the value after the assignment, or TypeError when a key of
\* the path has to be looked up or assigned in a value that is no dict
set_nested(current, keys, value) ==
    IF ~IsDict(current) THEN TypeError
    ELSE IF Len(keys) = 1 THEN JDict(DictSet(current.v, keys[1], value))
    ELSE LET child == IF DictHas(current.v, keys[1])
                      THEN DictGet(current.v, keys[1]) ELSE JDict(<<>>)
             sub == set_nested(child, Tail(keys), value)
         IN IF sub.t = "TypeError" THEN TypeError
            ELSE JDict(DictSet(current.v, keys[1], sub))

\* utils.set_nested_value(data, path, value)
set_nested_value(data, path, value) == set_nested(JDict(data), path, value)

RECURSIVE flatten_items(_, _)
\* the items list of DocumentProcessor._flatten_dict
flatten_items(d, parent_key) ==
    IF d = <<>> THEN <<>>
    ELSE LET new_key == Append(parent_key, d[1][1])
             v == d[1][2]
         IN (IF IsDict(v) THEN flatten_items(v.v, new_key)
             ELSE << <<new_key, v>> >>)
            \o flatten_items(Tail(d), parent_key)

\* DocumentProcessor._flatten_dict
flatten_dict(d) == DictUpdate(<<>>, flatten_items(d, <<>>))

\* of two strings the later one unless the earlier one is strictly longer
longer_string_strict(existing_value, new_value) ==
    IF Len(existing_value.v) > Len(new_value.v) THEN existing_value ELSE new_value

\* existing_value if len(existing_value) >= len(new_value) else new_value
longer_string(existing_value, new_value) ==
    IF Len(existing_value.v) >= Len(new_value.v) THEN existing_value ELSE new_value

RECURSIVE count_values(_, _)
\* value_counts[val] = value_counts.get(val, 0) + 1 for val in all_values;
\* equal values (by ==) share the key that was inserted first
count_values(all_values, value_counts) ==
    IF all_values = <<>> THEN value_counts
    ELSE LET val == all_values[1]
             hit == {i \in 1..Len(value_counts) : py_eq(value_counts[i][1], val)}
         IN count_values(Tail(all_values),
               IF hit = {} THEN Append(value_counts, <<val, 1>>)
               ELSE [i \in 1..Len(value_counts) |->
                       IF i \in hit
                       THEN <<value_counts[i][1], value_counts[i][2] + 1>>
                       ELSE value_counts[i]])

RECURSIVE max_by_count(_, _)
\* max(items, key=lambda x: x[1]): the first item with the largest count
max_by_count(items, best) ==
    IF items = <<>> THEN best
    ELSE max_by_count(Tail(items), IF items[1][2] > best[2] THEN items[1] ELSE best)

\* the value that arrived last, whatever the counts
most_recent(all_values) == all_values[Len(all_values)]

\* the numeric branch of _resolve_field_conflict
most_frequent(all_values) ==
    LET value_counts == count_values(all_values, <<>>)
    IN max_by_count(Tail(value_counts), value_counts[1])[1]

RECURSIVE dedupe(_, _)
\* the list branch of _resolve_field_conflict: first occurrences, in order
dedupe(combined, seen) ==
    IF combined = <<>> THEN seen
    ELSE dedupe(Tail(combined),
                IF \E i \in 1..Len(seen) : py_eq(seen[i], combined[1])
                THEN seen ELSE Append(seen, combined[1]))

\* isinstance(x, (int, float)): bool is a subclass of int
is_number(x) == x.t \in {"int", "bool"}

\* DocumentProcessor._resolve_field_conflict; TypeError when value_counts is
\* given a list as key
resolve_field_conflict(existing_value, new_value, all_values) ==
    IF py_eq(existing_value, new_value) THEN existing_value
    ELSE IF existing_value.t = "str" /\ new_value.t = "str"
    THEN longer_string(existing_value, new_value)
    ELSE IF is_number(existing_value) /\ is_number(new_value)
    THEN (IF \E i \in 1..Len(all_values) : all_values[i].t = "list"
          THEN TypeError ELSE most_frequent(all_values))
    ELSE IF existing_value.t = "list" /\ new_value.t = "list"
    THEN JList(dedupe(existing_value.v \o new_value.v, <<>>))
    ELSE IF existing_value.t = "bool" /\ new_value.t = "bool"
    THEN JBool(existing_value.v \/ new_value.v)
    ELSE IF new_value.t # "none" THEN new_value
    ELSE existing_value

RECURSIVE conflict_loop(_, _)
\* the loop of _merge_with_conflict_resolution over chunk_flat; st holds
\* merged_flat, field_values and field_occurrences, and raised once
\* _resolve_field_conflict has raised
conflict_loop(chunk_flat, st) ==
    IF chunk_flat = <<>> \/ st.raised THEN st
    ELSE LET field_path == chunk_flat[1][1]
             value == chunk_flat[1][2]
             known == DictHas(st.field_occurrences, field_path)
             occurrences == IF known THEN DictGet(st.field_occurrences, field_path)
                            ELSE 0
             values == Append(IF known THEN DictGet(st.field_values, field_path)
                              ELSE <<>>, value)
             resolved_value ==
                 IF ~DictHas(st.merged_flat, field_path) THEN value
                 ELSE resolve_field_conflict(DictGet(st.merged_flat, field_path),
                                             value, values)
         IN IF value.t = "none" THEN conflict_loop(Tail(chunk_flat), st)
            ELSE conflict_loop(Tail(chunk_flat),
                   [raised |-> resolved_value.t = "TypeError",
                    merged_flat |-> DictSet(st.merged_flat, field_path, resolved_value),
                    field_values |-> DictSet(st.field_values, field_path, values),
                    field_occurrences |->
                       DictSet(st.field_occurrences, field_path, occurrences + 1)])

RECURSIVE reconstruct(_, _)
\* the loop "Reconstruct nested dictionary" of
\* _merge_with_conflict_resolution; acc is the tagged result or TypeError
reconstruct(merged_flat, acc) ==
    IF merged_flat = <<>> \/ acc.t = "TypeError" THEN acc
    ELSE reconstruct(Tail(merged_flat),
                     set_nested(acc, merged_flat[1][1], merged_flat[1][2]))

\* DocumentProcessor._merge_with_conflict_resolution: raised tells that
\* _resolve_field_conflict or set_nested_value raised, otherwise merged_data is the value returned and
\* field_values, field_occurrences are the caller's dicts after the call
merge_with_conflict_resolution(data, chunk_data, values, occurrences) ==
    LET st == conflict_loop(flatten_dict(chunk_data),
                  [raised |-> FALSE,
                   merged_flat |-> flatten_dict(data),
                   field_values |-> values,
                   field_occurrences |-> occurrences])
        rebuilt == IF st.raised THEN TypeError
                   ELSE reconstruct(st.merged_flat, JDict(<<>>))
    IN [raised |-> rebuilt.t = "TypeError",
        merged_data |-> IF rebuilt.t = "TypeError" THEN <<>> ELSE rebuilt.v,
        field_values |-> st.field_values,
        field_occurrences |-> st.field_occurrences]

RECURSIVE aggregate_confidences(_, _)
\* the loop "Aggregate confidence scores" of merge_extractions
aggregate_confidences(fields, confidences) ==
    IF fields = <<>> THEN confidences
    ELSE aggregate_confidences(Tail(fields),
            DictSet(confidences, fields[1][1],
                    Append(dict_get(confidences, fields[1][1], <<>>), fields[1][2])))

\* the plain average of the scores, without the frequency weight
average_confidence(confidences, total) ==
    Frac(SumSeq(confidences), Len(confidences))

\* avg_confidence * frequency_weight of merge_extractions, as a quotient
weighted_confidence(confidences, total) ==
    Frac(SumSeq(confidences) * Len(confidences), Len(confidences) * total)

RECURSIVE sum_fracs(_)
\* sum(final_confidences.values()), as a quotient
sum_fracs(fracs) ==
    IF fracs = <<>> THEN Frac(0, 1)
    ELSE LET rest == sum_fracs(Tail(fracs))
         IN Frac(fracs[1].num * rest.den + rest.num * fracs[1].den,
                 fracs[1].den * rest.den)

\* the result merge_extractions builds after its loop
merged_result(data, confidences, tokens, refs) ==
    LET final_confidences ==
            [i \in 1..Len(confidences) |->
                <<confidences[i][1],
                  weighted_confidence(confidences[i][2], Len(refs))>>]
        total == sum_fracs([i \in 1..Len(final_confidences) |->
                               final_confidences[i][2]])
    IN << <<"data", data>>,
          <<"confidence",
            << <<"overall", IF final_confidences # <<>>
                            THEN Frac(total.num, total.den * Len(final_confidences))
                            ELSE Frac(0, 1)>>,
               <<"fields", final_confidences>> >> >>,
          <<"strategy", "document_chunked">>,
          <<"total_chunks", Len(refs)>>,
          <<"token_usage", tokens>>,
          <<"chunk_results", refs>> >>

\* what merge_extractions returns for an empty list
EmptyMerge ==
    << <<"data", <<>> >>,
       <<"confidence", ZeroConfidence>>,
       <<"strategy", "document_chunked">>,
       <<"total_chunks", 0>> >>

\* result = chunk_results[0] without the copy: the caller's own object
dict_alias(h, ref) == [heap |-> h, ref |-> ref]

\* d.copy(): a new object with the same items
dict_copy(h, ref) == [heap |-> Append(h, h[ref]), ref |-> Len(h) + 1]

\* the longest list of chunk results given to merge_extractions
MaxChunks == 3

\* the schema the chunk results were extracted with
MergeSchema ==
    MakeSchema(<< <<<<"flag">>, LeafNode("boolean", FALSE, <<>>, <<>>)>>,
                  <<<<"x">>, LeafNode("string", TRUE, <<>>, <<>>)>>,
                  <<<<"n">>, LeafNode("integer", FALSE, <<>>, <<>>)>>,
                  <<<<"g", "h">>, LeafNode("integer", FALSE, <<>>, <<>>)>> >>)

\* the values the oracle gave for the keys flag, x, n and g; for g also a
\* list in place of the object
ValuesAt(key) ==
    CASE key = "flag" -> {JBool(TRUE), JBool(FALSE)}
      [] key = "x" -> {JStr("cd"), JStr("abc")}
      [] key = "n" -> {JInt(1), JInt(2), NoneValue}
      [] key = "g" -> {JDict(<< <<"h", JInt(1)>> >>), JDict(<< <<"h", JInt(2)>> >>),
                       JList(<<>>)}

\* the data of a chunk: one key, or x and n, or n and g (BareChunkResult
\* holds the third string, FailedChunkResult no data)
ChunkData ==
    UNION {{<< <<k, v>> >> : v \in ValuesAt(k)} : k \in {"flag", "x", "n", "g"}}
    \cup {<< <<"x", JStr("cd")>>, <<"n", JInt(2)>> >>,
          << <<"n", JInt(1)>>, <<"g", JDict(<< <<"h", JInt(2)>> >>)>> >>}

\* what extract_simple returned for a chunk whose reply parsed
ChunkResult(data) ==
    << <<"data", data>>,
       <<"confidence", calculate_confidence(data, MergeSchema, TRUE)>>,
       <<"strategy", "single_pass">>,
       <<"token_usage", UsageTokens>> >>

\* what extract_simple returned for a chunk whose call failed
FailedChunkResult ==
    << <<"data", <<>> >>,
       <<"confidence", ZeroConfidence>>,
       <<"error", "call">>,
       <<"strategy", "single_pass">> >>

\* a result that holds data only
BareChunkResult == << <<"data", << <<"x", JStr("ab")>> >> >> >>

ChunkResults ==
    {ChunkResult(d) : d \in ChunkData} \cup {FailedChunkResult, BareChunkResult}

InitMerge ==
    /\ UtilsIdle
    /\ ChunkingIdle
    /\ ScorerIdle
    /\ \E n \in 0..MaxChunks :
         /\ heap \in [1..n -> ChunkResults]
         /\ chunk_results = [i \in 1..n |-> i]
    /\ schema = MergeSchema
    /\ max_tokens_per_chunk = 0
    /\ pc = "idle"
    /\ analysis = None
    /\ chunks = None
    /\ order = None
    /\ levels = <<>>
    /\ todo = <<>>
    /\ idx = 1
    /\ result = <<>>
    /\ confidence_scores = <<>>
    /\ total_tokens = 0
    /\ results = <<>>
    /\ calls = <<>>
    /\ ret = None
    /\ merged_data = <<>>
    /\ all_field_confidences = <<>>
    /\ field_occurrences = <<>>
    /\ field_values = <<>>

\* DocumentProcessor.merge_extractions up to its loop
MergeExtractions ==
    /\ pc = "idle"
    /\ IF chunk_results = <<>>
       THEN /\ heap' = Append(heap, EmptyMerge)
            /\ ret' = Len(heap) + 1
            /\ pc' = "returned"
       ELSE IF Len(chunk_results) = 1
       THEN LET copied == dict_copy(heap, chunk_results[1])
            IN /\ heap' = [copied.heap EXCEPT ![copied.ref] =
                             DictSet(DictSet(@, "strategy", "document_chunked"),
                                     "total_chunks", 1)]
               /\ ret' = copied.ref
               /\ pc' = "returned"
       ELSE /\ pc' = "merging"
            /\ UNCHANGED <<heap, ret>>
    /\ UNCHANGED <<aux_vars, schema, max_tokens_per_chunk, analyzer_vars, levels, todo, idx,
                   result, confidence_scores, total_tokens, results, calls,
                   chunk_results, merged_data, all_field_confidences,
                   field_occurrences, field_values>>

\* merge_extractions: one pass of "for chunk_result in chunk_results"; when
\* set_nested_value raises, merge_extractions raises
MergeChunk ==
    /\ pc = "merging"
    /\ idx <= Len(chunk_results)
    /\ LET chunk_result == heap[chunk_results[idx]]
           chunk_data == dict_get(chunk_result, "data", <<>>)
           chunk_confidence == dict_get(chunk_result, "confidence", <<>>)
           merged == merge_with_conflict_resolution(merged_data, chunk_data,
                         field_values, field_occurrences)
       IN IF merged.raised
          THEN /\ pc' = "raised"
               /\ UNCHANGED <<idx, total_tokens, merged_data, all_field_confidences,
                              field_occurrences, field_values>>
          ELSE /\ merged_data' = merged.merged_data
               /\ field_values' = merged.field_values
               /\ field_occurrences' = merged.field_occurrences
               /\ all_field_confidences' =
                    aggregate_confidences(dict_get(chunk_confidence, "fields", <<>>),
                                          all_field_confidences)
               /\ total_tokens' = total_tokens + dict_get(chunk_result, "token_usage", 0)
               /\ idx' = idx + 1
               /\ pc' = pc
    /\ UNCHANGED <<aux_vars, schema, max_tokens_per_chunk, analyzer_vars, levels, todo,
                   result, confidence_scores, results, calls, ret, heap,
                   chunk_results>>

\* merge_extractions: after the loop
MergeReturn ==
    /\ pc = "merging"
    /\ idx > Len(chunk_results)
    /\ heap' = Append(heap, merged_result(merged_data, all_field_confidences,
                                          total_tokens, chunk_results))
    /\ ret' = Len(heap) + 1
    /\ pc' = "returned"
    /\ UNCHANGED <<aux_vars, schema, max_tokens_per_chunk, analyzer_vars, levels, todo, idx,
                   result, confidence_scores, total_tokens, results, calls,
                   chunk_results, merged_data, all_field_confidences,
                   field_occurrences, field_values>>

NextMerge ==
    \/ MergeExtractions
    \/ MergeChunk
    \/ MergeReturn

SpecMerge == InitMerge /\ [][NextMerge]_vars

\* ------------------------------------------------------- ConfidenceScorer
\* The scorer's floating-point numbers are exact quotients in lowest terms.

RECURSIVE GCD(_, _)
GCD(a, b) == IF b = 0 THEN a ELSE GCD(b, a % b)

Reduce(q) ==
    LET g == GCD(q.num, q.den) IN Frac(q.num \div g, q.den \div g)

FracMul(p, q) == Reduce(Frac(p.num * q.num, p.den * q.den))
FracAdd(p, q) == Reduce(Frac(p.num * q.den + q.num * p.den, p.den * q.den))
FracDiv(p, n) == Reduce(Frac(p.num, p.den * n))
FracLess(p, q) == p.num * q.den < q.num * p.den

Zero == Frac(0, 1)
One == Frac(1, 1)
Tenths(n) == Reduce(Frac(n, 10))

RECURSIVE frac_sum(_)
\* sum(...) of a sequence of scores
frac_sum(s) == IF s = <<>> THEN Zero ELSE FracAdd(s[1], frac_sum(Tail(s)))

\* isinstance(value, type_mapping[expected_type]); numbers are integers
is_instance(value, expected_type) ==
    CASE expected_type = "string" -> value.t = "str"
      [] expected_type = "number" -> value.t \in {"int", "bool"}
      [] expected_type = "integer" -> value.t \in {"int", "bool"}
      [] expected_type = "boolean" -> value.t = "bool"
      [] expected_type = "array" -> value.t = "list"
      [] expected_type = "object" -> value.t = "dict"
      [] expected_type = "null" -> value.t = "none"
      [] OTHER -> FALSE

\* ConfidenceScorer._score_data_type
score_data_type(value, s) ==
    IF s.type = "" THEN One
    ELSE IF is_instance(value, s.type) THEN One
    ELSE IF s.type = "number" /\ value.t \in {"int", "bool"} THEN One
    ELSE IF s.type = "string" /\ value.t \in {"int", "bool"} THEN Tenths(8)
    ELSE Tenths(3)

\* ConfidenceScorer._score_enum_match
score_enum_match(value, s) ==
    IF ~Has(s.kw.enum) THEN One
    ELSE LET enum_values == Val(s.kw.enum)
         IN IF \E i \in 1..Len(enum_values) : py_eq(value, enum_values[i])
            THEN One
            ELSE IF value.t = "str"
                    /\ \E i \in 1..Len(enum_values) :
                          /\ enum_values[i].t = "str"
                          /\ lower(value.v) = lower(enum_values[i].v)
            THEN Tenths(9)
            ELSE Tenths(2)

\* ConfidenceScorer._score_pattern_match
score_pattern_match(value, s) ==
    IF ~Has(s.kw.pattern) \/ value.t # "str" THEN One
    ELSE IF re_match(Val(s.kw.pattern), value.v) THEN One
    ELSE Tenths(4)

\* multiply score by factor when the bound is violated
penalty(score, violated, factor) ==
    IF violated THEN FracMul(score, factor) ELSE score

\* 0.3 once, however many bounds the number violates
score_range_once(value, s) ==
    IF value.t \notin {"int", "bool"} THEN One
    ELSE LET n == py_num(value)
         IN penalty(One, \/ Has(s.kw.minimum) /\ n < Val(s.kw.minimum)
                         \/ Has(s.kw.maximum) /\ n > Val(s.kw.maximum)
                         \/ Has(s.kw.exclusiveMinimum)
                            /\ n <= Val(s.kw.exclusiveMinimum)
                         \/ Has(s.kw.exclusiveMaximum)
                            /\ n >= Val(s.kw.exclusiveMaximum),
                    Tenths(3))

\* ConfidenceScorer._score_range_validation
score_range_validation(value, s) ==
    IF value.t \notin {"int", "bool"} THEN One
    ELSE LET n == py_num(value)
             s1 == penalty(One, Has(s.kw.minimum) /\ n < Val(s.kw.minimum),
                           Tenths(3))
             s2 == penalty(s1, Has(s.kw.maximum) /\ n > Val(s.kw.maximum),
                           Tenths(3))
             s3 == penalty(s2, Has(s.kw.exclusiveMinimum)
                                  /\ n <= Val(s.kw.exclusiveMinimum), Tenths(3))
         IN penalty(s3, Has(s.kw.exclusiveMaximum)
                           /\ n >= Val(s.kw.exclusiveMaximum), Tenths(3))

\* ConfidenceScorer._score_length_validation
score_length_validation(value, s) ==
    IF value.t \notin {"str", "list"} THEN One
    ELSE LET length == Len(value.v)
             s1 == penalty(One, Has(s.kw.minLength) /\ length < Val(s.kw.minLength),
                           Tenths(5))
         IN penalty(s1, Has(s.kw.maxLength) /\ length > Val(s.kw.maxLength),
                    Tenths(5))

\* ConfidenceScorer._score_context_relevance
score_context_relevance(value, text) ==
    IF value.t # "str" \/ text = <<>> THEN One
    ELSE LET value_lower == lower(value.v)
             text_lower == lower(text)
             words == split(value_lower)
             matches == Cardinality({i \in 1..Len(words) :
                                        contains(text_lower, words[i])})
         IN IF contains(text_lower, value_lower) THEN One
            ELSE IF Len(words) > 1
            THEN FracAdd(Tenths(5), FracMul(Frac(matches, Len(words)), Tenths(5)))
            ELSE Tenths(7)

\* max(0.0, min(1.0, confidence))
clamp(confidence) ==
    IF FracLess(confidence, Zero) THEN Zero
    ELSE IF FracLess(One, confidence) THEN One
    ELSE confidence

\* an absent value scored 0.5 whether or not the field is required
score_field_optional(field_value, field_schema, context) ==
    IF field_value.t = "none" THEN Tenths(5)
    ELSE clamp(FracMul(score_data_type(field_value, field_schema),
                       score_enum_match(field_value, field_schema)))

\* ConfidenceScorer.score_field; context is <<>> when extraction_context has
\* no 'original_text', otherwise <<original_text>>
score_field(field_value, field_schema, context) ==
    IF field_value.t = "none"
    THEN (IF field_schema.required THEN Zero ELSE Tenths(5))
    ELSE LET c1 == score_data_type(field_value, field_schema)
             c2 == FracMul(c1, score_enum_match(field_value, field_schema))
             c3 == FracMul(c2, score_pattern_match(field_value, field_schema))
             c4 == FracMul(c3, score_range_validation(field_value, field_schema))
             c5 == FracMul(c4, score_length_validation(field_value, field_schema))
             c6 == IF context # <<>>
                   THEN FracMul(c5, score_context_relevance(field_value, context[1]))
                   ELSE c5
         IN clamp(c6)

\* ConfidenceScorer._calculate_field_scores
calculate_field_scores(data, s, text) ==
    LET flattened_schema == flatten_schema(s, <<>>)
    IN [i \in 1..Len(flattened_schema) |->
           <<flattened_schema[i][1],
             score_field(get_nested_value(data, flattened_schema[i][1]),
                         flattened_schema[i][2], <<text>>)>>]

\* ConfidenceScorer._calculate_completion_metrics
calculate_completion_metrics(data, s) ==
    LET flattened_schema == flatten_schema(s, <<>>)
        fields == 1..Len(flattened_schema)
        present(i) == get_nested_value(data, flattened_schema[i][1]).t # "none"
        total_fields == Len(flattened_schema)
        completed_fields == Cardinality({i \in fields : present(i)})
        required_fields ==
            Cardinality({i \in fields : flattened_schema[i][2].required})
        completed_required ==
            Cardinality({i \in fields :
                            flattened_schema[i][2].required /\ present(i)})
    IN [total_fields |-> total_fields,
        completed_fields |-> completed_fields,
        required_fields |-> required_fields,
        completed_required |-> completed_required,
        completion_rate |->
            IF total_fields > 0 THEN Reduce(Frac(completed_fields, total_fields))
            ELSE Zero,
        required_completion_rate |->
            IF required_fields > 0
            THEN Reduce(Frac(completed_required, required_fields))
            ELSE One]

\* ConfidenceScorer._flatten_dict
scorer_flatten_dict(d) == DictUpdate(<<>>, flatten_items(d, <<>>))

\* ConfidenceScorer._calculate_type_consistency
calculate_type_consistency(flat_result, flat_schema) ==
    LET known == {i \in 1..Len(flat_result) : DictHas(flat_schema, flat_result[i][1])}
        consistent ==
            {i \in known :
                ~FracLess(score_data_type(flat_result[i][2],
                                          DictGet(flat_schema, flat_result[i][1])),
                          Tenths(8))}
    IN IF flat_result = <<>> THEN One
       ELSE IF Cardinality(known) > 0
       THEN Reduce(Frac(Cardinality(consistent), Cardinality(known)))
       ELSE One

\* ConfidenceScorer._calculate_enum_consistency
calculate_enum_consistency(flat_result, flat_schema) ==
    LET enum_fields ==
            {i \in 1..Len(flat_result) :
                /\ DictHas(flat_schema, flat_result[i][1])
                /\ Has(DictGet(flat_schema, flat_result[i][1]).kw.enum)}
        consistent ==
            {i \in enum_fields :
                ~FracLess(score_enum_match(flat_result[i][2],
                                           DictGet(flat_schema, flat_result[i][1])),
                          Tenths(8))}
    IN IF flat_result = <<>> THEN One
       ELSE IF Cardinality(enum_fields) > 0
       THEN Reduce(Frac(Cardinality(consistent), Cardinality(enum_fields)))
       ELSE One

\* ConfidenceScorer._calculate_cross_field_consistency
calculate_cross_field_consistency == Tenths(8)

\* ConfidenceScorer._calculate_consistency_scores
calculate_consistency_scores(data, s) ==
    LET flattened_result == scorer_flatten_dict(data)
        flattened_schema == flatten_schema(s, <<>>)
        type_consistency ==
            calculate_type_consistency(flattened_result, flattened_schema)
        enum_consistency ==
            calculate_enum_consistency(flattened_result, flattened_schema)
    IN [type_consistency |-> type_consistency,
        enum_consistency |-> enum_consistency,
        cross_field_consistency |-> calculate_cross_field_consistency,
        overall |-> FracDiv(FracAdd(FracAdd(type_consistency, enum_consistency),
                                    calculate_cross_field_consistency), 3)]

\* the four components of the overall confidence added up without their
\* weights and without the clamp
unweighted_overall(field_scores, completion_metrics, consistency_scores, is_schema_valid) ==
    IF field_scores = <<>> THEN Zero
    ELSE FracAdd(FracAdd(frac_sum([i \in 1..Len(field_scores) |-> field_scores[i][2]]),
                         completion_metrics.completion_rate),
                 FracAdd(consistency_scores.overall,
                         IF is_schema_valid THEN One ELSE Tenths(5)))

\* ConfidenceScorer._calculate_overall_confidence
calculate_overall_confidence(field_scores, completion_metrics, consistency_scores, is_schema_valid) ==
    IF field_scores = <<>> THEN Zero
    ELSE LET field_confidence ==
                 FracDiv(frac_sum([i \in 1..Len(field_scores) |-> field_scores[i][2]]),
                         Len(field_scores))
             completion_factor ==
                 FracAdd(FracMul(completion_metrics.completion_rate, Tenths(3)),
                         FracMul(completion_metrics.required_completion_rate,
                                 Tenths(7)))
             consistency_factor == consistency_scores.overall
             schema_factor == IF is_schema_valid THEN One ELSE Tenths(5)
             overall ==
                 FracAdd(FracAdd(FracMul(field_confidence, Tenths(5)),
                                 FracMul(completion_factor, Tenths(2))),
                         FracAdd(FracMul(consistency_factor, Tenths(2)),
                                 FracMul(schema_factor, Tenths(1))))
         IN clamp(overall)

\* ConfidenceScorer._get_review_reason
get_review_reason(confidence) ==
    IF FracLess(confidence, Tenths(3))
    THEN "Very low confidence - likely extraction error"
    ELSE IF FracLess(confidence, Tenths(5))
    THEN "Low confidence - validation failed"
    ELSE IF FracLess(confidence, Tenths(7))
    THEN "Medium confidence - may need verification"
    ELSE "Below threshold - minor issues detected"

\* ConfidenceScorer._get_review_priority
get_review_priority(confidence) ==
    IF FracLess(confidence, Tenths(3)) THEN "high"
    ELSE IF FracLess(confidence, Tenths(5)) THEN "medium"
    ELSE "low"

RECURSIVE insert_sorted(_, _)
\* list.sort(key=lambda x: x['confidence']) is stable: a candidate goes
\* behind the candidates that are not above it
insert_sorted(sorted, candidate) ==
    IF sorted = <<>> THEN <<candidate>>
    ELSE IF FracLess(candidate.confidence, sorted[1].confidence)
    THEN <<candidate>> \o sorted
    ELSE <<sorted[1]>> \o insert_sorted(Tail(sorted), candidate)

RECURSIVE sort_by_confidence(_, _)
sort_by_confidence(candidates, sorted) ==
    IF candidates = <<>> THEN sorted
    ELSE sort_by_confidence(Tail(candidates), insert_sorted(sorted, candidates[1]))

RECURSIVE candidates_below(_, _)
\* the loop of get_review_candidates over field_scores.items()
candidates_below(field_scores, threshold) ==
    IF field_scores = <<>> THEN <<>>
    ELSE LET score == field_scores[1][2]
         IN (IF FracLess(score, threshold)
             THEN << [field |-> field_scores[1][1],
                      confidence |-> score,
                      reason |-> get_review_reason(score),
                      priority |-> get_review_priority(score)] >>
             ELSE <<>>)
            \o candidates_below(Tail(field_scores), threshold)

\* the candidates in the order of field_scores
unsorted_candidates(field_scores, threshold) ==
    candidates_below(field_scores, threshold)

\* ConfidenceScorer.get_review_candidates with an explicit threshold
get_review_candidates(field_scores, threshold) ==
    sort_by_confidence(candidates_below(field_scores, threshold), <<>>)

\* what every JSON Schema validator requires of a present value
conforms(value, s) ==
    /\ s.type = "string" => value.t = "str"
    /\ s.type \in {"integer", "number"} => value.t = "int"
    /\ s.type = "boolean" => value.t = "bool"
    /\ s.type = "array" => value.t = "list"
    /\ s.type = "object" => value.t = "dict"
    /\ Has(s.kw.enum) =>
           \E i \in 1..Len(Val(s.kw.enum)) : py_eq(value, Val(s.kw.enum)[i])
    /\ (value.t = "int" /\ Has(s.kw.minimum)) => value.v >= Val(s.kw.minimum)
    /\ (value.t = "int" /\ Has(s.kw.maximum)) => value.v <= Val(s.kw.maximum)
    /\ (value.t = "str" /\ Has(s.kw.minLength)) => Len(value.v) >= Val(s.kw.minLength)
    /\ (value.t = "str" /\ Has(s.kw.maxLength)) => Len(value.v) <= Val(s.kw.maxLength)

\* utils.validate_json_against_schema: the answers jsonschema.validate can
\* give.  It accepts no data with a present value that breaks its type,
\* enum, minimum, maximum, minLength or maxLength; a boolean 'required' is
\* honoured by a draft 3 validator and is a SchemaError, which the function
\* does not catch, for the later drafts.
validate_json_against_schema(data, s) ==
    LET flattened_schema == flatten_schema(s, <<>>)
        value(i) == get_nested_value(data, flattened_schema[i][1])
    IN {"invalid"}
       \cup (IF \A i \in 1..Len(flattened_schema) :
                   value(i).t # "none" => conforms(value(i), flattened_schema[i][2])
             THEN {"valid"} ELSE {})
       \cup (IF \E i \in 1..Len(flattened_schema) : flattened_schema[i][2].required
             THEN {"SchemaError"} ELSE {})

\* ConfidenceScorer.score_extraction, is_valid being the validator's answer
score_extraction(data, s, text, is_valid, threshold) ==
    LET field_scores == calculate_field_scores(data, s, text)
        completion_metrics == calculate_completion_metrics(data, s)
        consistency_scores == calculate_consistency_scores(data, s)
    IN [overall |-> calculate_overall_confidence(field_scores, completion_metrics,
                                                 consistency_scores, is_valid),
        fields |-> field_scores,
        completion |-> completion_metrics,
        consistency |-> consistency_scores,
        schema_valid |-> is_valid,
        validation_error |-> IF is_valid THEN "None" ELSE "ValidationError",
        review_candidates |-> get_review_candidates(field_scores, threshold),
        confidence_threshold |-> threshold]

\* ------------------------------------------------------- scoring: inputs

\* the largest number of properties a scored schema declares
MaxScoredFields == 2

Keywords(enum, pattern, minimum, maximum, exclusiveMinimum, exclusiveMaximum, minLength, maxLength) ==
    [enum |-> enum, pattern |-> pattern, minimum |-> minimum, maximum |-> maximum,
     exclusiveMinimum |-> exclusiveMinimum, exclusiveMaximum |-> exclusiveMaximum,
     minLength |-> minLength, maxLength |-> maxLength]

ScoredLeaf(type, required, kw) ==
    [LeafNode(type, required, <<>>, <<>>) EXCEPT !.kw = kw]

Ab == <<"A", "b">>

\* the declarations of 'name'
NameLeaves ==
    << ScoredLeaf("string", TRUE, NoKeywords),
       ScoredLeaf("string", FALSE,
                  Keywords(<< <<JStr(Ab), JInt(7)>> >>, <<>>, <<>>, <<>>, <<>>, <<>>,
                           <<3>>, <<>>)),
       ScoredLeaf("string", TRUE,
                  Keywords(<<>>, << <<"A">> >>, <<>>, <<>>, <<>>, <<>>, <<>>, <<2>>)) >>

\* the declarations of 'age'
AgeLeaves ==
    << ScoredLeaf("integer", FALSE,
                  Keywords(<<>>, <<>>, <<0>>, <<>>, <<>>, <<>>, <<>>, <<>>)),
       ScoredLeaf("integer", TRUE,
                  Keywords(<<>>, <<>>, <<0>>, <<9>>, <<0>>, <<12>>, <<>>, <<>>)),
       ScoredLeaf("number", FALSE,
                  Keywords(<< <<JInt(-5), JInt(3)>> >>, <<>>, <<0>>, <<>>, <<>>, <<>>,
                           <<>>, <<>>)) >>

\* the declarations of 'g': an object with the boolean 'k'
GroupNodes ==
    << [ObjectNode EXCEPT
           !.props = << <<"k", LeafNode("boolean", FALSE, <<>>, <<>>)>> >>] >>

\* the schema with the i-th declaration of name, the j-th of age and the
\* k-th of g, 0 for none
ScoredSchema(i, j, k) ==
    [ObjectNode EXCEPT
        !.props = (IF i = 0 THEN <<>> ELSE << <<"name", NameLeaves[i]>> >>)
                  \o (IF j = 0 THEN <<>> ELSE << <<"age", AgeLeaves[j]>> >>)
                  \o (IF k = 0 THEN <<>> ELSE << <<"g", GroupNodes[k]>> >>)]

\* the values of 'name', 'age' and 'g' in the extracted data
NameValues ==
    <<NoneValue, JStr(Ab), JStr(<<"a", "b">>), JStr(<<"a", " ", "b">>), JInt(7)>>
AgeValues ==
    <<JInt(-5), JInt(0), JInt(3), JInt(12), JBool(TRUE), JStr(<<"b">>)>>
GroupValues ==
    <<JDict(<< <<"k", JBool(TRUE)>> >>), JDict(<< <<"k", JInt(3)>> >>)>>

\* the data with the i-th value of name, the j-th of age and the k-th of g,
\* 0 for a missing key
ScoredData(i, j, k) ==
    (IF j = 0 THEN <<>> ELSE << <<"age", AgeValues[j]>> >>)
    \o (IF i = 0 THEN <<>> ELSE << <<"name", NameValues[i]>> >>)
    \o (IF k = 0 THEN <<>> ELSE << <<"g", GroupValues[k]>> >>)

\* the source texts: none, one without 'b', one with 'Ab'
SourceTexts == {<<>>, <<"a", "a">>, <<"x", " ", "A", "b">>}

\* the thresholds a scorer is constructed with, and those of a review
ConfidenceThresholds == {Tenths(5), Tenths(7)}
ReviewThresholds == {Zero, Tenths(3), One}

\* ------------------------------------------------------ scoring: actions

InitScore ==
    /\ UtilsIdle
    /\ ChunkingIdle
    /\ \E i \in 0..Len(NameLeaves), j \in 0..Len(AgeLeaves), k \in 0..Len(GroupNodes) :
          /\ Cardinality({x \in {<<1, i>>, <<2, j>>, <<3, k>>} : x[2] # 0})
                <= MaxScoredFields
          /\ schema = ScoredSchema(i, j, k)
    /\ \E i \in 0..Len(NameValues), j \in 0..Len(AgeValues), k \in 0..Len(GroupValues) :
          result = ScoredData(i, j, k)
    /\ original_text \in SourceTexts
    /\ validation \in validate_json_against_schema(result, schema)
    /\ confidence_threshold \in ConfidenceThresholds
    /\ report = None
    /\ review_threshold = None
    /\ review_candidates = None
    /\ max_tokens_per_chunk = 0
    /\ pc = "idle"
    /\ analysis = None
    /\ chunks = None
    /\ order = None
    /\ levels = <<>>
    /\ todo = <<>>
    /\ idx = 1
    /\ confidence_scores = <<>>
    /\ total_tokens = 0
    /\ results = <<>>
    /\ calls = <<>>
    /\ ret = None
    /\ heap = <<>>
    /\ chunk_results = <<>>
    /\ merged_data = <<>>
    /\ all_field_confidences = <<>>
    /\ field_occurrences = <<>>
    /\ field_values = <<>>

\* ConfidenceScorer.score_extraction
ScoreExtraction ==
    /\ pc = "idle"
    /\ IF validation = "SchemaError"
       THEN /\ pc' = "raised"
            /\ UNCHANGED report
       ELSE /\ report' = score_extraction(result, schema, original_text,
                                          validation = "valid", confidence_threshold)
            /\ pc' = "scored"
    /\ UNCHANGED <<utils_vars, schema, max_tokens_per_chunk, analyzer_vars, levels, todo, idx,
                   result, confidence_scores, total_tokens, results, calls, ret,
                   merge_vars, original_text, validation, confidence_threshold,
                   review_threshold, review_candidates, chunking_vars>>

\* ConfidenceScorer.get_review_candidates on the scores of the report, with
\* a threshold of the caller
GetReviewCandidates ==
    /\ pc = "scored"
    /\ \E threshold \in ReviewThresholds :
          /\ review_threshold' = threshold
          /\ review_candidates' = get_review_candidates(report.fields, threshold)
    /\ pc' = "reviewed"
    /\ UNCHANGED <<utils_vars, schema, max_tokens_per_chunk, analyzer_vars, engine_vars,
                   merge_vars, original_text, validation, confidence_threshold,
                   report, chunking_vars>>

\* ExtractionEngine.calculate_confidence on the same data and schema
CalculateConfidence ==
    /\ pc \in {"idle", "scored", "reviewed"}
    /\ confidence_scores = <<>>
    /\ LET flattened_schema == flatten_schema(schema, <<>>)
       IN IF \/ validation = "SchemaError"
             \/ \E i \in 1..Len(flattened_schema) :
                   field_confidence_raises(result, flattened_schema[i][1],
                                           flattened_schema[i][2])
          THEN /\ pc' = "raised"
               /\ UNCHANGED confidence_scores
          ELSE /\ confidence_scores' =
                      calculate_confidence(result, schema, validation = "valid")
               /\ UNCHANGED pc
    /\ UNCHANGED <<utils_vars, schema, max_tokens_per_chunk, analyzer_vars, levels, todo, idx,
                   result, total_tokens, results, calls, ret, merge_vars,
                   scorer_vars, chunking_vars>>

NextScore ==
    \/ ScoreExtraction
    \/ GetReviewCandidates
    \/ CalculateConfidence

SpecScore == InitScore /\ [][NextScore]_vars

\* ------------------------------------------- DocumentProcessor: chunking
\* A text is the sequence of its characters; the whitespace of the inputs
\* is the blank.

\* the characters one token covers
TokenChars == 4

\* str.strip()
RECURSIVE lstrip(_)
lstrip(x) == IF x # <<>> /\ x[1] = " " THEN lstrip(Tail(x)) ELSE x

RECURSIVE rstrip(_)
rstrip(x) ==
    IF x # <<>> /\ x[Len(x)] = " " THEN rstrip(SubSeq(x, 1, Len(x) - 1)) ELSE x

strip(x) == rstrip(lstrip(x))

RECURSIVE join(_, _)
\* sep.join(parts)
join(parts, sep) ==
    IF parts = <<>> THEN <<>>
    ELSE IF Len(parts) = 1 THEN parts[1]
    ELSE parts[1] \o sep \o join(Tail(parts), sep)

\* utils.count_tokens: the tokenizer is an external pure function; it is
\* modelled as one token for every TokenChars characters of a word
count_tokens(x) ==
    LET words == split(x)
    IN SumSeq([i \in 1..Len(words) |->
                  (Len(words[i]) + TokenChars - 1) \div TokenChars])

RECURSIVE re_split_sentences(_, _)
\* re.split(sentence_pattern, x): a run of blanks behind '.', '!' or '?'
\* and before a capital letter separates two pieces; piece is the one read
re_split_sentences(x, piece) ==
    IF x = <<>> THEN <<piece>>
    ELSE IF /\ x[1] = " "
            /\ piece # <<>> /\ piece[Len(piece)] \in {".", "!", "?"}
            /\ lstrip(x) # <<>> /\ lstrip(x)[1] \in {"A", "B"}
    THEN <<piece>> \o re_split_sentences(lstrip(x), <<>>)
    ELSE re_split_sentences(Tail(x), Append(piece, x[1]))

RECURSIVE clean_sentences(_)
\* the sentences of more than ten characters, stripped
clean_sentences(pieces) ==
    IF pieces = <<>> THEN <<>>
    ELSE (IF Len(strip(pieces[1])) > 10 THEN <<strip(pieces[1])>> ELSE <<>>)
         \o clean_sentences(Tail(pieces))

\* DocumentProcessor._split_into_sentences
split_into_sentences(x) ==
    LET cleaned_sentences == clean_sentences(re_split_sentences(strip(x), <<>>))
    IN IF cleaned_sentences # <<>> THEN cleaned_sentences ELSE <<x>>

\* the number of blanks x starts with
blanks(x) == Len(x) - Len(lstrip(x))

\* the length of the match of a clause pattern at the start of x, 0 for none:
\* ',\s+' and ';\s+' are a mark and blanks, '\s+and\s+', '\s+or\s+' and
\* '\s+but\s+' are a word between blanks
clause_match(pattern, x) ==
    IF Len(pattern) = 1
    THEN (IF x # <<>> /\ x[1] = pattern[1] /\ blanks(Tail(x)) > 0
          THEN 1 + blanks(Tail(x)) ELSE 0)
    ELSE LET rest == lstrip(x)
             after == SubSeq(rest, Len(pattern) + 1, Len(rest))
         IN IF /\ blanks(x) > 0
               /\ Len(rest) >= Len(pattern)
               /\ SubSeq(rest, 1, Len(pattern)) = pattern
               /\ blanks(after) > 0
            THEN blanks(x) + Len(pattern) + blanks(after) ELSE 0

RECURSIVE re_split_clauses(_, _, _)
\* re.split(pattern, x); part is the part being read
re_split_clauses(pattern, x, part) ==
    IF x = <<>> THEN <<part>>
    ELSE LET n == clause_match(pattern, x)
         IN IF n > 0
            THEN <<part>> \o re_split_clauses(pattern, SubSeq(x, n + 1, Len(x)), <<>>)
            ELSE re_split_clauses(pattern, Tail(x), Append(part, x[1]))

\* the clause patterns of _split_oversized_sentence, in their order
ClausePatterns ==
    << <<",">>, <<";">>, <<"a", "n", "d">>, <<"o", "r">>, <<"b", "u", "t">> >>

RECURSIVE pack_parts(_, _, _, _)
\* the loop of _split_oversized_sentence over the parts of a clause split:
\* a part is glued to the current chunk while the result fits
pack_parts(parts, max_tokens, packed, current_chunk) ==
    IF parts = <<>>
    THEN (IF current_chunk # <<>> THEN Append(packed, current_chunk) ELSE packed)
    ELSE LET part == parts[1]
             test_chunk == IF current_chunk # <<>> THEN current_chunk \o part ELSE part
         IN IF count_tokens(test_chunk) <= max_tokens
            THEN pack_parts(Tail(parts), max_tokens, packed, test_chunk)
            ELSE pack_parts(Tail(parts), max_tokens,
                            IF current_chunk # <<>> THEN Append(packed, current_chunk)
                            ELSE packed,
                            part)

RECURSIVE pack_words(_, _, _, _)
\* the fallback loop of _split_oversized_sentence over the words
pack_words(words, max_tokens, packed, current_chunk) ==
    IF words = <<>>
    THEN (IF current_chunk # <<>> THEN Append(packed, join(current_chunk, <<" ">>))
          ELSE packed)
    ELSE LET test_chunk == Append(current_chunk, words[1])
         IN IF count_tokens(join(test_chunk, <<" ">>)) <= max_tokens
            THEN pack_words(Tail(words), max_tokens, packed, test_chunk)
            ELSE pack_words(Tail(words), max_tokens,
                            IF current_chunk # <<>>
                            THEN Append(packed, join(current_chunk, <<" ">>))
                            ELSE packed,
                            <<words[1]>>)

RECURSIVE split_by_clauses(_, _, _)
\* the loop of _split_oversized_sentence over the clause patterns, from the
\* k-th on, and its fallback
split_by_clauses(sentence, max_tokens, k) ==
    IF k > Len(ClausePatterns)
    THEN pack_words(split(sentence), max_tokens, <<>>, <<>>)
    ELSE LET parts == re_split_clauses(ClausePatterns[k], sentence, <<>>)
             packed == pack_parts(parts, max_tokens, <<>>, <<>>)
         IN IF /\ Len(parts) > 1
               /\ \A i \in 1..Len(packed) : count_tokens(packed[i]) <= max_tokens
            THEN packed
            ELSE split_by_clauses(sentence, max_tokens, k + 1)

\* DocumentProcessor._split_oversized_sentence
split_oversized_sentence(sentence, max_tokens) ==
    split_by_clauses(sentence, max_tokens, 1)

RECURSIVE truncate_words(_, _, _, _)
\* the loop of _get_overlap_text over reversed(words)
truncate_words(words, limit, truncated, current_tokens) ==
    IF words = <<>> THEN truncated
    ELSE LET word == words[Len(words)]
             word_tokens == count_tokens(word)
         IN IF current_tokens + word_tokens <= limit
            THEN truncate_words(SubSeq(words, 1, Len(words) - 1), limit,
                                <<word>> \o truncated, current_tokens + word_tokens)
            ELSE truncated

\* DocumentProcessor._get_overlap_text
get_overlap_text(existing_chunks, limit) ==
    IF existing_chunks = <<>> THEN <<>>
    ELSE LET last_chunk == existing_chunks[Len(existing_chunks)]
             last_chunk_sentences == split_into_sentences(last_chunk.text)
             n == Len(last_chunk_sentences)
             overlap_sentences ==
                 IF n >= 2 THEN SubSeq(last_chunk_sentences, n - 1, n)
                 ELSE last_chunk_sentences
             overlap_text == join(overlap_sentences, <<" ">>)
         IN IF count_tokens(overlap_text) > limit
            THEN join(truncate_words(split(overlap_text), limit, <<>>, 0), <<" ">>)
            ELSE overlap_text

\* DocumentProcessor._get_overlap_sentences
get_overlap_sentences(chunk_sentences) ==
    LET n == Len(chunk_sentences)
        overlap_count == IF n \div 3 < 2 THEN n \div 3 ELSE 2
    IN IF n <= 2 THEN <<>>
       ELSE IF overlap_count > 0 THEN SubSeq(chunk_sentences, n - overlap_count + 1, n)
       ELSE <<>>

\* start_pos of a chunk, taken from the text with its overlap prefix
start_pos_of_text(position, chunk_sentences, chunk_text) == position - Len(chunk_text)

\* 'start_pos': text_position - len(' '.join(current_chunk))
start_pos(position, chunk_sentences, chunk_text) ==
    position - Len(join(chunk_sentences, <<" ">>))

\* the chunk chunk_document appends when it closes current_chunk by itself,
\* before an oversized sentence
plain_chunk(existing_chunks, chunk_sentences, tokens, position) ==
    LET chunk_text == join(chunk_sentences, <<" ">>)
    IN [text |-> chunk_text,
        chunk_id |-> Len(existing_chunks),
        start_pos |-> position - Len(chunk_text),
        end_pos |-> position,
        token_count |-> tokens,
        sentence_count |-> Len(chunk_sentences)]

\* the chunk chunk_document appends when it closes current_chunk with the
\* overlap of the chunk before
overlap_chunk(existing_chunks, chunk_sentences, limit, position) ==
    LET overlap_text == get_overlap_text(existing_chunks, limit)
        chunk_text == IF overlap_text # <<>>
                      THEN overlap_text \o <<" ">> \o join(chunk_sentences, <<" ">>)
                      ELSE join(chunk_sentences, <<" ">>)
    IN [text |-> chunk_text,
        chunk_id |-> Len(existing_chunks),
        start_pos |-> start_pos(position, chunk_sentences, chunk_text),
        end_pos |-> position,
        token_count |-> count_tokens(chunk_text),
        sentence_count |-> Len(chunk_sentences),
        has_overlap |-> overlap_text # <<>>]

RECURSIVE sub_chunks_from(_, _, _)
\* the chunks chunk_document appends for the sub-chunks of an oversized
\* sentence
sub_chunks_from(existing_chunks, sub_chunks, position) ==
    IF sub_chunks = <<>> THEN existing_chunks
    ELSE sub_chunks_from(
             Append(existing_chunks,
                    [text |-> sub_chunks[1],
                     chunk_id |-> Len(existing_chunks),
                     start_pos |-> position,
                     end_pos |-> position + Len(sub_chunks[1]),
                     token_count |-> count_tokens(sub_chunks[1]),
                     sentence_count |-> 1]),
             Tail(sub_chunks), position + Len(sub_chunks[1]))

\* ------------------------------------------------------ chunking: inputs

\* the largest number of sentences of a text
MaxSentences == 4

\* the sentences texts are made of: three words; a long word and a short
\* one; clauses; a fragment of less than eleven characters
SentenceKinds ==
    << <<"A", "a", " ", "a", "a", " ", "a", "a", "a", "a", ".">>,
       <<"B", "a", "a", "a", "a", "a", "a", "a", "a", "a", "a", "a", "a", " ", "a", "b", ".">>,
       <<"A", "b", ",", " ", "a", "a", " ", "a", "n", "d", " ", "a", "b", ",", " ", "a", "a", "a", "a", "a", ".">>,
       <<"A", "b", " ", "a", "a", ".">> >>

\* the texts: up to MaxSentences sentences, a blank between two of them
DocumentTexts ==
    {join([i \in 1..Len(kinds) |-> SentenceKinds[kinds[i]]], <<" ">>) :
        kinds \in UNION {[1..n -> 1..Len(SentenceKinds)] : n \in 1..MaxSentences}}

\* the token budgets of a chunk and of the overlap text
ChunkBudgets == {3, 4, 12}
OverlapBudgets == {2, 8}

\* ----------------------------------------------------- chunking: actions

InitChunk ==
    /\ UtilsIdle
    /\ ScorerIdle
    /\ document_text \in DocumentTexts
    /\ max_tokens_per_chunk \in ChunkBudgets
    /\ overlap_tokens \in OverlapBudgets
    /\ sentences = <<>>
    /\ text_chunks = <<>>
    /\ sentence_chunk = <<>>
    /\ sentence_tokens_sum = 0
    /\ text_position = 0
    /\ appended = <<>>
    /\ schema = None
    /\ pc = "idle"
    /\ analysis = None
    /\ chunks = None
    /\ order = None
    /\ levels = <<>>
    /\ todo = <<>>
    /\ idx = 1
    /\ result = <<>>
    /\ confidence_scores = <<>>
    /\ total_tokens = 0
    /\ results = <<>>
    /\ calls = <<>>
    /\ ret = None
    /\ heap = <<>>
    /\ chunk_results = <<>>
    /\ merged_data = <<>>
    /\ all_field_confidences = <<>>
    /\ field_occurrences = <<>>
    /\ field_values = <<>>

\* DocumentProcessor.chunk_document up to its loop
ChunkDocument ==
    /\ pc = "idle"
    /\ sentences' = split_into_sentences(document_text)
    /\ text_chunks' = <<>>
    /\ sentence_chunk' = <<>>
    /\ sentence_tokens_sum' = 0
    /\ text_position' = 0
    /\ idx' = 1
    /\ pc' = "chunking"
    /\ UNCHANGED <<utils_vars, schema, max_tokens_per_chunk, analyzer_vars, levels, todo,
                   result, confidence_scores, total_tokens, results, calls, ret,
                   merge_vars, scorer_vars, document_text, overlap_tokens, appended>>

\* one iteration of the loop of chunk_document over the sentences
ChunkSentence ==
    /\ pc = "chunking"
    /\ idx <= Len(sentences)
    /\ LET sentence == sentences[idx]
           sentence_tokens == count_tokens(sentence)
           max_tokens == max_tokens_per_chunk
       IN IF sentence_tokens > max_tokens
          THEN LET closed ==
                       IF sentence_chunk # <<>>
                       THEN Append(text_chunks,
                                   plain_chunk(text_chunks, sentence_chunk,
                                               sentence_tokens_sum, text_position))
                       ELSE text_chunks
                   sub_chunks == split_oversized_sentence(sentence, max_tokens)
               IN /\ text_chunks' = sub_chunks_from(closed, sub_chunks, text_position)
                  /\ text_position' = text_position
                        + SumSeq([i \in 1..Len(sub_chunks) |-> Len(sub_chunks[i])])
                  /\ sentence_chunk' = <<>>
                  /\ sentence_tokens_sum' =
                        IF sentence_chunk # <<>> THEN 0 ELSE sentence_tokens_sum
                  /\ appended' = appended \o sub_chunks
          ELSE LET full == sentence_tokens_sum + sentence_tokens > max_tokens
                               /\ sentence_chunk # <<>>
                   overlap_sentences == get_overlap_sentences(sentence_chunk)
                   seeded == IF full THEN overlap_sentences ELSE sentence_chunk
                   seeded_tokens ==
                       IF full
                       THEN SumSeq([i \in 1..Len(overlap_sentences) |->
                                       count_tokens(overlap_sentences[i])])
                       ELSE sentence_tokens_sum
               IN /\ text_chunks' =
                        IF full
                        THEN Append(text_chunks,
                                    overlap_chunk(text_chunks, sentence_chunk,
                                                  overlap_tokens, text_position))
                        ELSE text_chunks
                  /\ sentence_chunk' = Append(seeded, sentence)
                  /\ sentence_tokens_sum' = seeded_tokens + sentence_tokens
                  /\ text_position' = text_position + Len(sentence) + 1
                  /\ appended' = Append(appended, sentence)
    /\ idx' = idx + 1
    /\ UNCHANGED <<utils_vars, schema, max_tokens_per_chunk, pc, analyzer_vars, levels, todo,
                   result, confidence_scores, total_tokens, results, calls, ret,
                   merge_vars, scorer_vars, document_text, overlap_tokens, sentences>>

\* the end of chunk_document: the final chunk and the return
ChunkReturn ==
    /\ pc = "chunking"
    /\ idx > Len(sentences)
    /\ text_chunks' =
          IF sentence_chunk # <<>>
          THEN Append(text_chunks,
                      overlap_chunk(text_chunks, sentence_chunk, overlap_tokens,
                                    text_position))
          ELSE text_chunks
    /\ pc' = "chunked"
    /\ UNCHANGED <<utils_vars, schema, max_tokens_per_chunk, analyzer_vars, engine_vars, merge_vars,
                   scorer_vars, document_text, overlap_tokens, sentences,
                   sentence_chunk, sentence_tokens_sum, text_position, appended>>

NextChunk ==
    \/ ChunkDocument
    \/ ChunkSentence
    \/ ChunkReturn

SpecChunk == InitChunk /\ [][NextChunk]_vars

\* ------------------------------------- flatten_schema: property names

\* Here a property name is the sequence of its characters and may hold a
\* dot, and a path is the string flatten_schema builds.

\* full_key = f"{prefix}.{key}" if prefix else key
full_key_of(prefix, key) ==
    IF prefix # <<>> THEN prefix \o <<".">> \o key ELSE key

RECURSIVE flatten_named(_, _)
RECURSIVE flatten_named_props(_, _, _)
\* flatten_schema(schema, prefix) with the paths as strings
flatten_named(node, prefix) ==
    IF node.hasProps THEN flatten_named_props(node.props, prefix, <<>>) ELSE <<>>

\* the loop of flatten_schema over schema['properties'].items()
flatten_named_props(props, prefix, flattened) ==
    IF props = <<>> THEN flattened
    ELSE LET key == props[1][1]
             value == props[1][2]
             full_key == full_key_of(prefix, key)
         IN flatten_named_props(Tail(props), prefix,
                IF value.hasProps
                THEN DictUpdate(flattened, flatten_named(value, full_key))
                ELSE DictSet(flattened, full_key, value))

\* the largest number of properties of one object
MaxNamedFields == 2

\* the property names: two plain ones and one with a dot
NamedKeys == {<<"a">>, <<"b">>, <<"a", ".", "b">>}

\* the 'properties' dicts with values from a set: distinct names, in any
\* order
NamedProps(values) ==
    UNION {{props \in [1..n -> NamedKeys \X values] :
               \A i, j \in 1..n : i # j => props[i][1] # props[j][1]}
           : n \in 0..MaxNamedFields}

\* the nested objects, and the schemas: an object of leaves and nested
\* objects
NamedObjects == {[ObjectNode EXCEPT !.props = props] : props \in NamedProps({StringLeaf})}
NamedSchemas ==
    {[ObjectNode EXCEPT !.props = props] :
        props \in NamedProps({StringLeaf, RequiredLeaf} \cup NamedObjects)}

InitFlatten ==
    /\ ChunkingIdle
    /\ ScorerIdle
    /\ complexity_metrics = None
    /\ flattened_fields = None
    /\ merge_operands = <<>>
    /\ schema \in NamedSchemas
    /\ max_tokens_per_chunk = 0
    /\ pc = "idle"
    /\ analysis = None
    /\ chunks = None
    /\ order = None
    /\ levels = <<>>
    /\ todo = <<>>
    /\ idx = 1
    /\ result = <<>>
    /\ confidence_scores = <<>>
    /\ total_tokens = 0
    /\ results = <<>>
    /\ calls = <<>>
    /\ ret = None
    /\ heap = <<>>
    /\ chunk_results = <<>>
    /\ merged_data = <<>>
    /\ all_field_confidences = <<>>
    /\ field_occurrences = <<>>
    /\ field_values = <<>>

\* flatten_schema(schema)
FlattenSchema ==
    /\ pc = "idle"
    /\ flattened_fields' = flatten_named(schema, <<>>)
    /\ pc' = "flattened"
    /\ UNCHANGED <<schema, max_tokens_per_chunk, analyzer_vars, engine_vars,
                   merge_vars, scorer_vars, chunking_vars, complexity_metrics,
                   merge_operands>>

NextFlatten == FlattenSchema

SpecFlatten == InitFlatten /\ [][NextFlatten]_vars

\* ------------------------------------------- complexity score: metrics

\* the largest max_depth and object_count of the metrics
MaxMetricDepth == 7
MaxMetricObjects == 14

\* total_fields and enum_complexity around the steps of their quotients
\* and around their caps
FieldCounts == {0, 1, 9, 10, 15, 249, 250, 251, 260}
EnumCounts == {0, 1, 49, 50, 75, 999, 1000, 1001, 1050}

MetricsInputs ==
    [max_depth : 0..MaxMetricDepth, total_fields : FieldCounts,
     object_count : 0..MaxMetricObjects, enum_complexity : EnumCounts]

InitComplexity ==
    /\ ChunkingIdle
    /\ ScorerIdle
    /\ complexity_metrics \in MetricsInputs
    /\ flattened_fields = None
    /\ merge_operands = <<>>
    /\ schema = None
    /\ max_tokens_per_chunk = 0
    /\ pc = "idle"
    /\ analysis = None
    /\ chunks = None
    /\ order = None
    /\ levels = <<>>
    /\ todo = <<>>
    /\ idx = 1
    /\ result = <<>>
    /\ confidence_scores = <<>>
    /\ total_tokens = 0
    /\ results = <<>>
    /\ calls = <<>>
    /\ ret = None
    /\ heap = <<>>
    /\ chunk_results = <<>>
    /\ merged_data = <<>>
    /\ all_field_confidences = <<>>
    /\ field_occurrences = <<>>
    /\ field_values = <<>>

\* SchemaAnalyzer._calculate_complexity_score(metrics)
CalculateComplexityScore ==
    /\ pc = "idle"
    /\ ret' = calculate_complexity_score(complexity_metrics)
    /\ pc' = "complexity"
    /\ UNCHANGED <<schema, max_tokens_per_chunk, analyzer_vars, levels, todo, idx,
                   result, confidence_scores, total_tokens, results, calls,
                   merge_vars, aux_vars>>

NextComplexity == CalculateComplexityScore

SpecComplexity == InitComplexity /\ [][NextComplexity]_vars

\* ------------------------------------------- merge_dicts_deep: three dicts

\* what the key "k" of a merged dict can hold: nothing, a number or an object
NestedValues ==
    <<<<>>, <<JInt(1)>>,
      <<JDict(<< <<"x", JInt(1)>> >>)>>,
      <<JDict(<< <<"x", JInt(2)>> >>)>>,
      <<JDict(<< <<"y", JInt(2)>> >>)>>,
      <<JDict(<< <<"x", JDict(<< <<"z", JInt(1)>> >>)>> >>)>> >>

\* what the key "m" can hold
PlainValues == <<<<>>, <<JInt(1)>>, <<JInt(2)>> >>

\* the dict with the given values (none or one) under "k" and "m"
NestedDict(k, m) ==
    [i \in 1..Len(k) |-> <<"k", k[i]>>] \o [i \in 1..Len(m) |-> <<"m", m[i]>>]

\* the dicts to merge, numbered
NestedDicts ==
    [n \in 1..(Len(NestedValues) * Len(PlainValues)) |->
        NestedDict(NestedValues[((n - 1) \div Len(PlainValues)) + 1],
                   PlainValues[((n - 1) % Len(PlainValues)) + 1])]

InitDeepMerge ==
    /\ ChunkingIdle
    /\ ScorerIdle
    /\ complexity_metrics = None
    /\ flattened_fields = None
    /\ \E a, b, c \in 1..Len(NestedDicts) :
          merge_operands = <<NestedDicts[a], NestedDicts[b], NestedDicts[c]>>
    /\ schema = None
    /\ max_tokens_per_chunk = 0
    /\ pc = "idle"
    /\ analysis = None
    /\ chunks = None
    /\ order = None
    /\ levels = <<>>
    /\ todo = <<>>
    /\ idx = 1
    /\ result = <<>>
    /\ confidence_scores = <<>>
    /\ total_tokens = 0
    /\ results = <<>>
    /\ calls = <<>>
    /\ ret = None
    /\ heap = <<>>
    /\ chunk_results = <<>>
    /\ merged_data = <<>>
    /\ all_field_confidences = <<>>
    /\ field_occurrences = <<>>
    /\ field_values = <<>>

\* merge_dicts_deep(merge_dicts_deep(a, b), c): the accumulator of
\* extract_hierarchical and extract_complex after three outputs
MergeInArrivalOrder ==
    /\ pc = "idle"
    /\ ret' = merge_dicts_deep(
                  merge_dicts_deep(merge_operands[1], merge_operands[2]),
                  merge_operands[3])
    /\ pc' = "merged_left"
    /\ UNCHANGED <<schema, max_tokens_per_chunk, analyzer_vars, levels, todo, idx,
                   result, confidence_scores, total_tokens, results, calls,
                   merge_vars, aux_vars>>

\* merge_dicts_deep(a, merge_dicts_deep(b, c))
MergeLaterFirst ==
    /\ pc = "idle"
    /\ ret' = merge_dicts_deep(merge_operands[1],
                  merge_dicts_deep(merge_operands[2], merge_operands[3]))
    /\ pc' = "merged_right"
    /\ UNCHANGED <<schema, max_tokens_per_chunk, analyzer_vars, levels, todo, idx,
                   result, confidence_scores, total_tokens, results, calls,
                   merge_vars, aux_vars>>

NextDeepMerge ==
    \/ MergeInArrivalOrder
    \/ MergeLaterFirst

SpecDeepMerge == InitDeepMerge /\ [][NextDeepMerge]_vars

\* ------------------------------------------------------------------ claims

FlatFields(node) == SeqRange(flatten_schema(node, <<>>))

DependsOn(f) ==
    SeqRange(DictGet(build_dependency_graph(schema), f).depends_on)

\* C1: analyze_complexity picks chunked when the estimated schema tokens
\* exceed the chunk budget (whatever the depth and object count), otherwise
\* hierarchical when max depth > 1 or object count > 1, otherwise
\* single_pass; needs_chunking is true exactly when chunked was chosen.
C1_StrategyDecision ==
    pc = "analyzed" =>
      LET m == analysis.metrics
          over == m.estimated_tokens > max_tokens_per_chunk
          nested == m.max_depth > 1 \/ m.object_count > 1
      IN /\ m = schema_metrics(schema)
         /\ over => analysis.strategy = "multi_pass_chunked"
         /\ (~over /\ nested) => analysis.strategy = "multi_pass_hierarchical"
         /\ (~over /\ ~nested) => analysis.strategy = "single_pass"
         /\ analysis.needs_chunking <=> analysis.strategy = "multi_pass_chunked"

\* a deep schema over budget is analysed: chunked wins over hierarchical
C1_Witness ==
    /\ pc = "analyzed"
    /\ analysis.metrics.max_depth > 1
    /\ analysis.metrics.estimated_tokens > max_tokens_per_chunk
    /\ analysis.strategy = "multi_pass_chunked"

\* C6: the chunks returned by chunk_schema partition the schema's flattened
\* fields: together they hold exactly the fields of the full schema, and
\* every field lies in exactly one chunk.
C6_ChunksPartitionFields ==
    pc = "chunked" =>
      /\ UNION {FlatFields(chunks[i].schema) : i \in 1..Len(chunks)}
            = FlatFields(schema)
      /\ \A p \in FlatPathsOf(schema) :
            Cardinality({i \in 1..Len(chunks) : p \in FlatPathsOf(chunks[i].schema)}) = 1

\* a schema with a reference cycle is split into several chunks
C6_Witness ==
    /\ pc = "chunked"
    /\ Len(chunks) >= 2
    /\ \E f, g \in FlatPathsOf(schema) : f # g /\ g \in DependsOn(f) /\ f \in DependsOn(g)
    /\ \E i \in 1..Len(chunks) : Cardinality(FlatPathsOf(chunks[i].schema)) >= 2


Strategy == DictGet(ret, "strategy")

FailedCalls == {i \in 1..Len(calls) : FailsAt(calls[i].reply) \in {"call", "parse"}}

\* C2: extract returns an Extraction Result whatever calls fail, and after a
\* failure the remaining levels / chunks are still attempted: one oracle call
\* per level (hierarchical), per schema chunk (chunked), one call in all
\* (single_pass).
C2_FailuresNeverAbort ==
    /\ pc = "hierarchical" => idx = Len(calls) + 1 /\ idx <= Len(levels) + 1
    /\ pc = "complex" => idx = Len(calls) + 1 /\ idx <= Len(todo) + 1
    /\ pc = "returned" =>
         /\ DictHas(ret, "data") /\ DictHas(ret, "confidence")
         /\ Strategy = analysis.strategy
         /\ Strategy = "single_pass" => Len(calls) = 1
         /\ Strategy = "multi_pass_hierarchical" =>
              /\ Len(calls) = Cardinality({Len(f) - 1 : f \in FlatPathsOf(schema)})
              /\ \A f \in FlatPathsOf(schema) :
                   \E i \in 1..Len(calls) : calls[i].unit = Len(f) - 1
         /\ Strategy = "multi_pass_chunked" =>
              /\ Len(calls) = Len(chunks)
              /\ \A k \in 1..Len(chunks) :
                   \E i \in 1..Len(calls) : calls[i].unit = chunks[k].chunk_id

\* a hierarchical extraction whose first two calls failed has returned
C2_Witness ==
    /\ pc = "returned"
    /\ Strategy = "multi_pass_hierarchical"
    /\ Len(calls) >= 3
    /\ FailsAt(calls[1].reply) = "call"
    /\ FailsAt(calls[2].reply) = "parse"

IsErrorContribution(r) ==
    /\ DictHas(r, "error")
    /\ DictGet(r, "data") = <<>>
    /\ DictGet(r, "confidence") = ZeroConfidence

\* the error-tagged contributions the returned result holds
ErrorContributions ==
    (IF IsErrorContribution(ret) THEN 1 ELSE 0)
    + (IF DictHas(ret, "chunk_results")
       THEN Cardinality({j \in 1..Len(DictGet(ret, "chunk_results")) :
                IsErrorContribution(DictGet(ret, "chunk_results")[j])})
       ELSE 0)

\* C3: every failed oracle call (call failure or unparseable JSON) is recorded
\* in the returned result as an error-tagged contribution with empty data
\* and zero confidence, in every strategy.
C3_FailuresRecorded ==
    pc = "returned" => ErrorContributions >= Cardinality(FailedCalls)

\* C3 without the hierarchical strategy: what the code does record
C3_RecordedOutsideHierarchical ==
    (pc = "returned" /\ Strategy # "multi_pass_hierarchical") =>
        ErrorContributions >= Cardinality(FailedCalls)

RECURSIVE Accumulated(_)
\* the deep merge of what the first n calls brought (of those that parsed)
Accumulated(n) ==
    IF n = 0 THEN <<>>
    ELSE IF FailsAt(calls[n].reply) \in {"call", "parse"} THEN Accumulated(n - 1)
    ELSE merge_dicts_deep(Accumulated(n - 1),
            ReplyData(calls[n].reply,
                      build_level_schema(schema, levels[n][2])))

\* C4: the hierarchical strategy groups the fields by nesting level (dots in
\* the path) and calls the oracle for the levels in ascending order, each
\* call with the data accumulated from the levels already processed.
C4_LevelsAscending ==
    (pc = "returned" /\ Strategy = "multi_pass_hierarchical") =>
        /\ \A i \in 1..Len(calls) :
             /\ calls[i].fields =
                  {f \in FlatPathsOf(schema) : Len(f) - 1 = calls[i].unit}
             /\ calls[i].context = Accumulated(i - 1)
        /\ \A i, j \in 1..Len(calls) : i < j => calls[i].unit < calls[j].unit

\* C4 without the order: the grouping and the context alone
C4_GroupingAndContext ==
    (pc = "returned" /\ Strategy = "multi_pass_hierarchical") =>
        \A i \in 1..Len(calls) :
             /\ calls[i].fields =
                  {f \in FlatPathsOf(schema) : Len(f) - 1 = calls[i].unit}
             /\ calls[i].context = Accumulated(i - 1)

PriorityOf(chunk_id) ==
    chunks[CHOOSE k \in 1..Len(chunks) : chunks[k].chunk_id = chunk_id].priority

\* C5: the chunked strategy calls the oracle in priority order: high chunks
\* before medium chunks before low chunks, chunks of equal priority in their
\* chunk sequence order.
C5_PriorityOrder ==
    (pc \in {"complex", "returned"}
     /\ analysis.strategy = "multi_pass_chunked") =>
        \A i, j \in 1..Len(calls) : i < j =>
            \/ PriorityRank(PriorityOf(calls[i].unit))
                 < PriorityRank(PriorityOf(calls[j].unit))
            \/ /\ PriorityOf(calls[i].unit) = PriorityOf(calls[j].unit)
               /\ calls[i].unit < calls[j].unit

\* three chunks were processed, a later chunk first and two chunks of equal
\* priority in sequence order
C5_Witness ==
    /\ pc = "returned"
    /\ Strategy = "multi_pass_chunked"
    /\ Len(calls) = 3
    /\ \E i, j \in 1..3 : i < j /\ calls[i].unit > calls[j].unit
    /\ \E i, j \in 1..3 : i < j /\ PriorityOf(calls[i].unit) = PriorityOf(calls[j].unit)

\* the field paths of the data given to merge_extractions
MergePaths == {<<"flag">>, <<"x">>, <<"n">>, <<"g">>, <<"g", "h">>}

\* the flattened data of the i-th chunk result
ChunkFlat(i) == flatten_dict(dict_get(heap[chunk_results[i]], "data", <<>>))

\* the chunk results merged so far
MergedCount == IF pc = "merging" THEN idx - 1 ELSE Len(chunk_results)

\* a merge of two or more chunk results is under way or has returned
Merging == pc \in {"merging", "returned"} /\ Len(chunk_results) >= 2

IsPrefix(p, q) == Len(p) < Len(q) /\ SubSeq(q, 1, Len(p)) = p

\* none of the first n chunks gives a value to a part of path p or to a path
\* below p: p is a field wherever it is mentioned
PathClear(p, n) ==
    \A i \in 1..n : \A j \in 1..Len(ChunkFlat(i)) :
        LET q == ChunkFlat(i)[j][1] IN ~IsPrefix(q, p) /\ ~IsPrefix(p, q)

RECURSIVE SeenValues(_, _)
\* the non-null values the first n chunks give to path p, in arrival order
SeenValues(p, n) ==
    IF n = 0 THEN <<>>
    ELSE LET flat == ChunkFlat(n)
         IN IF DictHas(flat, p) /\ DictGet(flat, p).t # "none"
            THEN Append(SeenValues(p, n - 1), DictGet(flat, p))
            ELSE SeenValues(p, n - 1)

AllOfType(values, types) == \A i \in 1..Len(values) : values[i].t \in types

\* the merged value of path p is v
MergedIs(p, v) ==
    LET flat == flatten_dict(merged_data)
    IN DictHas(flat, p) /\ DictGet(flat, p) = v

\* C7: merging a list that holds the single chunk result A returns a result
\* with the keys of A plus strategy and total_chunks, equal to A at every key
\* but those two, and leaves the caller's A as it was.
C7_SingleResultKept ==
    [][(pc = "idle" /\ Len(chunk_results) = 1 /\ pc' = "returned") =>
         LET A == heap[chunk_results[1]]
             merged == heap'[ret']
         IN /\ chunk_results' = chunk_results
            /\ heap'[chunk_results[1]] = A
            /\ SeqRange(DictKeys(merged))
                 = SeqRange(DictKeys(A)) \cup {"strategy", "total_chunks"}
            /\ \A k \in SeqRange(DictKeys(A)) \ {"strategy", "total_chunks"} :
                 DictGet(merged, k) = DictGet(A, k)]_vars

\* a single result with its own strategy and token usage was merged
C7_Witness ==
    /\ pc = "returned"
    /\ Len(chunk_results) = 1
    /\ DictHas(heap[chunk_results[1]], "token_usage")
    /\ DictHas(heap[chunk_results[1]], "strategy")
    /\ DictGet(heap[chunk_results[1]], "strategy") = "single_pass"
    /\ DictGet(heap[ret], "strategy") = "document_chunked"
    /\ DictGet(heap[ret], "total_chunks") = 1

\* C8: when every chunk that mentions a path gives it a boolean, the merged
\* value is the OR of the values seen so far, whatever the arrival order.
C8_BooleanOr ==
    Merging =>
      \A p \in MergePaths :
        LET seen == SeenValues(p, MergedCount)
        IN (PathClear(p, MergedCount) /\ seen # <<>> /\ AllOfType(seen, {"bool"})) =>
              MergedIs(p, JBool(\E i \in 1..Len(seen) : seen[i].v))

\* C9: when every chunk that mentions a path gives it a string, the merged
\* value is the first of the longest strings seen so far.
C9_LongestStringFirst ==
    Merging =>
      \A p \in MergePaths :
        LET seen == SeenValues(p, MergedCount)
            longest(i) == \A j \in 1..Len(seen) : Len(seen[j].v) <= Len(seen[i].v)
        IN (PathClear(p, MergedCount) /\ seen # <<>> /\ AllOfType(seen, {"str"})) =>
              \E i \in 1..Len(seen) :
                 /\ longest(i)
                 /\ \A j \in 1..(i - 1) : ~longest(j)
                 /\ MergedIs(p, seen[i])

\* two strings of the same length arrived, the second one differing
C9_Witness ==
    /\ pc = "merging"
    /\ idx = 3
    /\ SeenValues(<<"x">>, 2) = <<JStr("ab"), JStr("cd")>>
    /\ MergedIs(<<"x">>, JStr("ab"))

\* C10: when every chunk that mentions a path gives it a number or null,
\* then after each chunk the merged value is the most frequent of the
\* non-null values seen so far, the one seen first among equally frequent
\* ones; a path that only nulls were given to has no merged value.
C10_MostFrequentNumber ==
    Merging =>
      \A p \in MergePaths :
        LET seen == SeenValues(p, MergedCount)
            count(i) == Cardinality({j \in 1..Len(seen) : seen[j] = seen[i]})
            best(i) == \A j \in 1..Len(seen) : count(j) <= count(i)
        IN (PathClear(p, MergedCount) /\ AllOfType(seen, {"int"})) =>
              IF seen = <<>> THEN ~DictHas(flatten_dict(merged_data), p)
              ELSE \E i \in 1..Len(seen) :
                     /\ best(i)
                     /\ \A j \in 1..(i - 1) : ~best(j)
                     /\ MergedIs(p, seen[i])

\* a null, then 2, then 1 arrived: the null is skipped and 2 stays
C10_Witness ==
    /\ pc = "merging"
    /\ idx = 4
    /\ DictHas(ChunkFlat(1), <<"n">>)
    /\ DictGet(ChunkFlat(1), <<"n">>) = NoneValue
    /\ SeenValues(<<"n">>, 3) = <<JInt(2), JInt(1)>>
    /\ MergedIs(<<"n">>, JInt(2))

\* the per-field scores the i-th chunk result reports
ReportedScores(i) ==
    dict_get(dict_get(heap[chunk_results[i]], "confidence", <<>>), "fields", <<>>)

\* the sum of the scores the chunk results report for field f
ScoreSum(f) ==
    SumSeq([i \in 1..Len(chunk_results) |->
               IF DictHas(ReportedScores(i), f) THEN DictGet(ReportedScores(i), f)
               ELSE 0])

\* the fields some chunk result reports a score for
ScoredFields ==
    UNION {SeqRange(DictKeys(ReportedScores(i))) : i \in 1..Len(chunk_results)}

\* the quotient q is num / den
FracIs(q, num, den) == q.den # 0 /\ den # 0 /\ q.num * den = num * q.den

\* C11: after a merge of two or more chunk results the confidence of each
\* field is the sum of the scores reported for it divided by the number of
\* chunk results, the fields are those some chunk reported, and the overall
\* confidence is the mean of the per-field values, 0 when there is none.
C11_WeightedConfidence ==
    (pc = "returned" /\ Len(chunk_results) >= 2) =>
      LET confidence == DictGet(heap[ret], "confidence")
          fields == DictGet(confidence, "fields")
          n == Len(chunk_results)
          total == SumSeq([i \in 1..Len(fields) |-> ScoreSum(fields[i][1])])
      IN /\ SeqRange(DictKeys(fields)) = ScoredFields
         /\ Len(fields) = Cardinality(ScoredFields)
         /\ \A i \in 1..Len(fields) : FracIs(fields[i][2], ScoreSum(fields[i][1]), n)
         /\ IF fields = <<>> THEN DictGet(confidence, "overall").num = 0
            ELSE FracIs(DictGet(confidence, "overall"), total, n * Len(fields))

\* three results were merged, one of them without scores, and a field with
\* differing scores got a merged value that is no plain average
C11_Witness ==
    /\ pc = "returned"
    /\ Len(chunk_results) = 3
    /\ \E i \in 1..3 : ReportedScores(i) = <<>>
    /\ \E i, j \in 1..3 :
          /\ DictHas(ReportedScores(i), <<"x">>) /\ DictHas(ReportedScores(j), <<"x">>)
          /\ DictGet(ReportedScores(i), <<"x">>) # DictGet(ReportedScores(j), <<"x">>)
    /\ ScoreSum(<<"x">>) = 1000

\* a score within the closed interval [0,1]
InUnit(q) == q.den > 0 /\ 0 <= q.num /\ q.num <= q.den

Scored == pc \in {"scored", "reviewed"}

\* the score of a field in the report
ScoreOf(field) == DictGet(report.fields, field)

\* C12: every per-field score and the overall score of a report returned
\* by score_extraction lie in [0,1], whatever factors apply.
C12_ScoresInUnitInterval ==
    Scored =>
        /\ InUnit(report.overall)
        /\ \A i \in 1..Len(report.fields) : InUnit(report.fields[i][2])

\* a report with a twice range-penalised age, a name scored by the type,
\* enum, length and textual-evidence factors together, and an overall score
\* strictly between 0 and 1
C12_Witness ==
    /\ pc = "scored"
    /\ DictHas(report.fields, <<"age">>) /\ ScoreOf(<<"age">>) = Frac(9, 100)
    /\ DictHas(report.fields, <<"name">>)
    /\ FracLess(Zero, ScoreOf(<<"name">>))
    /\ FracLess(ScoreOf(<<"name">>), Tenths(2))
    /\ original_text # <<>>
    /\ FracLess(Zero, report.overall) /\ FracLess(report.overall, One)

\* the leaf fields of the scored schema, with their schemas
SchemaFields == flatten_schema(schema, <<>>)

Absent(field) == get_nested_value(result, field).t = "none"

\* the engine's per-field confidences have been calculated
Calculated == pc # "raised" /\ confidence_scores # <<>>

\* C13: a field whose value is absent from the extracted data scores 0.0
\* when it is required and 0.5 when it is optional, whatever its other
\* constraints and the source text, in the report of the scorer and in the
\* per-field confidence of the extraction engine (there in thousandths).
C13_AbsentFieldScore ==
    \A i \in 1..Len(SchemaFields) :
        LET field == SchemaFields[i][1]
            required == SchemaFields[i][2].required
        IN Absent(field) =>
             /\ Scored => ScoreOf(field) = (IF required THEN Zero ELSE Tenths(5))
             /\ Calculated =>
                    DictGet(DictGet(confidence_scores, "fields"), field)
                        = (IF required THEN 0 ELSE 500)

\* scorer and engine have both scored data that lacks a required name with a
\* pattern and a maximal length and an optional age with a minimum, the
\* source text being non-empty
C13_Witness ==
    /\ Scored /\ Calculated
    /\ original_text # <<>>
    /\ schema = ScoredSchema(3, 1, 0)
    /\ Absent(<<"name">>) /\ Absent(<<"age">>)
    /\ ScoreOf(<<"name">>) = Zero
    /\ ScoreOf(<<"age">>) = Tenths(5)

\* the priority the specification gives a score
PriorityFor(score) ==
    IF FracLess(score, Tenths(3)) THEN "high"
    ELSE IF FracLess(score, Tenths(5)) THEN "medium"
    ELSE "low"

\* candidates are exactly the fields of scores strictly below threshold,
\* each once with its score and priority, in ascending order of confidence
ReviewOf(candidates, scores, threshold) ==
    /\ {candidates[i].field : i \in 1..Len(candidates)}
          = {scores[i][1] : i \in {j \in 1..Len(scores) :
                                     FracLess(scores[j][2], threshold)}}
    /\ \A i, j \in 1..Len(candidates) :
          /\ i # j => candidates[i].field # candidates[j].field
          /\ i < j => ~FracLess(candidates[j].confidence, candidates[i].confidence)
    /\ \A i \in 1..Len(candidates) :
          /\ candidates[i].confidence = DictGet(scores, candidates[i].field)
          /\ candidates[i].priority = PriorityFor(candidates[i].confidence)

\* C14: get_review_candidates returns exactly the fields whose score is
\* strictly below the threshold, sorted by ascending confidence, each tagged
\* high below 0.3, medium below 0.5 and low otherwise; for the call of
\* score_extraction with the scorer's threshold and for a call with a
\* threshold of the caller.
C14_ReviewCandidates ==
    /\ Scored =>
          ReviewOf(report.review_candidates, report.fields, confidence_threshold)
    /\ pc = "reviewed" =>
          ReviewOf(review_candidates, report.fields, review_threshold)

\* a review with threshold 1.0 of two fields, the first scored higher than
\* the second and of another priority, whose candidates are both of them
C14_Witness ==
    /\ pc = "reviewed"
    /\ review_threshold = One
    /\ Len(report.fields) = 2
    /\ Len(review_candidates) = 2
    /\ FracLess(report.fields[2][2], report.fields[1][2])
    /\ review_candidates[1].priority = "high"
    /\ review_candidates[2].priority = "low"

\* the bounds of the field schema s that the number n violates
ViolatedBounds(n, s) ==
    {b \in {"minimum", "maximum", "exclusiveMinimum", "exclusiveMaximum"} :
        \/ b = "minimum" /\ Has(s.kw.minimum) /\ n < Val(s.kw.minimum)
        \/ b = "maximum" /\ Has(s.kw.maximum) /\ n > Val(s.kw.maximum)
        \/ b = "exclusiveMinimum" /\ Has(s.kw.exclusiveMinimum)
           /\ n <= Val(s.kw.exclusiveMinimum)
        \/ b = "exclusiveMaximum" /\ Has(s.kw.exclusiveMaximum)
           /\ n >= Val(s.kw.exclusiveMaximum)}

\* the constraints of s other than its bounds hold of the number: its type
\* and its enum
OthersSatisfied(value, s) ==
    /\ s.type \in {"", "integer", "number"}
    /\ Has(s.kw.enum) =>
           \E i \in 1..Len(Val(s.kw.enum)) : py_eq(value, Val(s.kw.enum)[i])

RECURSIVE ThreeTenthsTo(_)
\* 0.3 to the power k
ThreeTenthsTo(k) == IF k = 0 THEN One ELSE FracMul(Tenths(3), ThreeTenthsTo(k - 1))

\* the largest integer a violating value is replaced with
MaxReplacement == 9

\* the integers a violating value is replaced with
Replacements == -1..MaxReplacement

\* the overall confidences score_extraction can report for the data with
\* the value of field replaced by the integer n
OverallWith(field, n) ==
    LET replaced == set_nested_value(result, field, JInt(n)).v
    IN {score_extraction(replaced, schema, original_text, answer = "valid",
                         confidence_threshold).overall :
           answer \in validate_json_against_schema(replaced, schema) \ {"SchemaError"}}

\* field holds a number below the minimum of its schema s, its type and enum
\* being satisfied
BelowMinimum(field, s) ==
    LET value == get_nested_value(result, field)
    IN /\ value.t \in {"int", "bool"}
       /\ Has(s.kw.minimum) /\ py_num(value) < Val(s.kw.minimum)
       /\ OthersSatisfied(value, s)

\* C15: a present number below its field's minimum, its other constraints
\* satisfied, scores at most 0.3, namely 0.3 to the number of bounds it
\* violates, and the overall confidence of the report is strictly below the
\* overall confidence for the same data with that value replaced by one
\* that is inside the bounds (and, like the value, satisfies the other
\* constraints).
C15_MinimumViolation ==
    Scored =>
      \A i \in 1..Len(SchemaFields) :
          LET field == SchemaFields[i][1]
              s == SchemaFields[i][2]
              value == get_nested_value(result, field)
          IN BelowMinimum(field, s) =>
               /\ ~FracLess(Tenths(3), ScoreOf(field))
               /\ ScoreOf(field)
                     = ThreeTenthsTo(Cardinality(ViolatedBounds(py_num(value), s)))
               /\ \A n \in Replacements :
                     (ViolatedBounds(n, s) = {} /\ OthersSatisfied(JInt(n), s)) =>
                         \A overall \in OverallWith(field, n) :
                             FracLess(report.overall, overall)

\* a report for data whose age -5 violates the minimum and the exclusive
\* minimum of its schema, which also sets a maximum, next to a valid name
C15_Witness ==
    /\ pc = "scored"
    /\ schema = ScoredSchema(1, 2, 0)
    /\ BelowMinimum(<<"age">>, AgeLeaves[2])
    /\ ScoreOf(<<"age">>) = Frac(9, 100)
    /\ DictHas(result, "name") /\ ScoreOf(<<"name">>) = One

\* chunk_document has returned its chunks
Chunked == pc = "chunked"

\* a fallback chunk of one word that alone exceeds the budget
OversizedWord(chunk) ==
    /\ Len(split(chunk.text)) = 1
    /\ count_tokens(chunk.text) > max_tokens_per_chunk

\* C16: every chunk chunk_document returns has a token count, as recorded
\* for its full text with the overlap prefix and the seeded overlap
\* sentences, of at most the per-chunk budget, unless the chunk is a single
\* word that alone exceeds the budget.
C16_ChunksWithinBudget ==
    Chunked =>
      \A i \in 1..Len(text_chunks) :
          \/ text_chunks[i].token_count <= max_tokens_per_chunk
          \/ OversizedWord(text_chunks[i])

\* the sentences chunk i holds itself: its text without the overlap prefix
own_sentences(i) ==
    LET chunk == text_chunks[i]
        prefix == IF "has_overlap" \in DOMAIN chunk /\ chunk.has_overlap
                  THEN Len(get_overlap_text(SubSeq(text_chunks, 1, i - 1),
                                            overlap_tokens)) + 1
                  ELSE 0
    IN SubSeq(chunk.text, prefix + 1, Len(chunk.text))

\* the number of sentences of chunk i that were seeded from the chunk before
\* it, which an overflow closed
seeded_count(i) ==
    IF i > 1 /\ "has_overlap" \in DOMAIN text_chunks[i]
             /\ "has_overlap" \in DOMAIN text_chunks[i - 1]
    THEN Len(get_overlap_sentences([k \in 1..text_chunks[i - 1].sentence_count |-> k]))
    ELSE 0

\* the non-overlap content of chunk i: its sentences that are neither in the
\* overlap prefix nor seeded
non_overlap_content(i) ==
    LET own == split_into_sentences(own_sentences(i))
    IN IF seeded_count(i) = 0 THEN own_sentences(i)
       ELSE join(SubSeq(own, seeded_count(i) + 1, Len(own)), <<" ">>)

\* the words of the non-overlap content of the chunks, in chunk order
chunk_words ==
    split(join([i \in 1..Len(text_chunks) |-> non_overlap_content(i)], <<" ">>))

\* C17: the non-overlap content of the chunks chunk_document returns, taken
\* in chunk order, is the sentence content of the text: every sentence,
\* in the original order and exactly once, and every word of a sentence that
\* was split because it exceeds the budget.
C17_ContentPreserved ==
    Chunked => chunk_words = split(join(sentences, <<" ">>))

\* the non-overlap content is what the loop of chunk_document added
C17_ContentIsAppended ==
    Chunked => chunk_words = split(join(appended, <<" ">>))

\* C18: in the chunks chunk_document returns the start and the end offsets
\* never decrease from one chunk to the next, every chunk has
\* 0 <= start <= end, and end minus start is the length of the chunk's own
\* sentences, without the overlap prefix of its text.
C18_Offsets ==
    Chunked =>
      /\ \A i \in 1..Len(text_chunks) :
            /\ 0 <= text_chunks[i].start_pos
            /\ text_chunks[i].start_pos <= text_chunks[i].end_pos
            /\ text_chunks[i].end_pos - text_chunks[i].start_pos
                  = Len(own_sentences(i))
      /\ \A i \in 1..(Len(text_chunks) - 1) :
            /\ text_chunks[i].start_pos <= text_chunks[i + 1].start_pos
            /\ text_chunks[i].end_pos <= text_chunks[i + 1].end_pos

\* two chunks are returned; the second has an overlap prefix taken from the
\* first, and a sentence seeded from the first before its own new sentence
C18_Witness ==
    /\ Chunked
    /\ Len(text_chunks) = 2
    /\ "has_overlap" \in DOMAIN text_chunks[2] /\ text_chunks[2].has_overlap
    /\ seeded_count(2) > 0
    /\ text_chunks[2].sentence_count = 2
    /\ Len(own_sentences(2)) < Len(text_chunks[2].text)
    /\ text_chunks[1].start_pos < text_chunks[2].start_pos

\* flatten_schema has returned
Flattened == pc = "flattened"

RECURSIVE leaf_paths(_, _)
\* the paths of the leaf nodes reached through 'properties', one entry for
\* each leaf node
leaf_paths(props, prefix) ==
    IF props = <<>> THEN <<>>
    ELSE (IF props[1][2].hasProps
          THEN leaf_paths(props[1][2].props, full_key_of(prefix, props[1][1]))
          ELSE <<full_key_of(prefix, props[1][1])>>)
         \o leaf_paths(Tail(props), prefix)

\* C19: the mapping flatten_schema returns has one entry for each leaf node
\* reached through 'properties': no two distinct leaf nodes share a path and
\* the size of the mapping is the number of leaf nodes; an object with no
\* properties flattens to the empty mapping.
C19_FlattenUnique ==
    Flattened =>
      LET paths == leaf_paths(schema.props, <<>>)
      IN /\ \A i, j \in 1..Len(paths) : i # j => paths[i] # paths[j]
         /\ Len(flattened_fields) = Len(paths)
         /\ SeqRange(DictKeys(flattened_fields)) = SeqRange(paths)
         /\ (schema.props = <<>> => flattened_fields = <<>>)

\* a property name holds a dot
Dotted(key) == \E i \in 1..Len(key) : key[i] = "."

RECURSIVE has_dotted_name(_)
has_dotted_name(props) ==
    /\ props # <<>>
    /\ \/ Dotted(props[1][1])
       \/ has_dotted_name(props[1][2].props)
       \/ has_dotted_name(Tail(props))

\* what flatten_schema keeps of C19: the same, for the schemas none of whose
\* property names holds a dot
C19_UniqueWithoutDots ==
    (Flattened /\ ~has_dotted_name(schema.props)) =>
      LET paths == leaf_paths(schema.props, <<>>)
      IN /\ \A i, j \in 1..Len(paths) : i # j => paths[i] # paths[j]
         /\ flattened_fields = [i \in 1..Len(paths) |-> <<paths[i], flattened_fields[i][2]>>]
         /\ (schema.props = <<>> => flattened_fields = <<>>)

\* the smaller of two quotients
FracMin(p, q) == IF FracLess(q, p) THEN q ELSE p

\* C20: the complexity score is an integer from 0 to 100, the integer part
\* of the sum of min(30, depth*5), min(25, fields/10), min(25, objects*2)
\* and min(20, enum_count/50).
C20_ComplexityScore ==
    pc = "complexity" =>
      LET m == complexity_metrics
          depth == FracMin(Frac(30, 1), Frac(m.max_depth * 5, 1))
          field == FracMin(Frac(25, 1), Frac(m.total_fields, 10))
          object == FracMin(Frac(25, 1), Frac(m.object_count * 2, 1))
          enum == FracMin(Frac(20, 1), Frac(m.enum_complexity, 50))
          sum == FracAdd(FracAdd(depth, field), FracAdd(object, enum))
      IN /\ ret \in 0..100
         /\ ~FracLess(sum, Frac(ret, 1))
         /\ FracLess(sum, Frac(ret + 1, 1))

\* every contribution is over its cap and the score is 100
C20_Witness ==
    /\ pc = "complexity"
    /\ complexity_metrics.max_depth * 5 > 30
    /\ complexity_metrics.total_fields > 250
    /\ complexity_metrics.object_count * 2 > 25
    /\ complexity_metrics.enum_complexity > 1000
    /\ ret = 100

\* the engine's confidence of a field, in thousandths
ConfidenceOf(field) == DictGet(DictGet(confidence_scores, "fields"), field)

\* C21: the per-field confidence calculate_confidence gives, which the
\* single_pass strategy returns, equals the score the Confidence Scorer gives
\* to the same value, field schema and source text.
C21_EngineMatchesScorer ==
    (Scored /\ Calculated) =>
      \A i \in 1..Len(SchemaFields) :
          FracIs(ScoreOf(SchemaFields[i][1]), ConfidenceOf(SchemaFields[i][1]), 1000)

\* where engine and scorer do agree: on the fields whose value is absent
\* (C13); a present value that meets every constraint already differs when
\* the source text does not hold it
C21_AgreeOnAbsent ==
    (Scored /\ Calculated) =>
      \A i \in 1..Len(SchemaFields) :
          Absent(SchemaFields[i][1]) =>
              FracIs(ScoreOf(SchemaFields[i][1]), ConfidenceOf(SchemaFields[i][1]), 1000)

\* extract has returned the result of the chunked strategy
ChunkedReturned ==
    pc = "returned" /\ DictGet(ret, "strategy") = "multi_pass_chunked"

RECURSIVE rule_merge(_, _)
\* the chunk outputs merged, in processing order, by the Result Merger's
\* _merge_with_conflict_resolution
rule_merge(rs, st) ==
    IF rs = <<>> \/ st.raised THEN st
    ELSE rule_merge(Tail(rs),
             merge_with_conflict_resolution(st.merged_data, DictGet(rs[1], "data"),
                                            st.field_values, st.field_occurrences))

RuleMerged ==
    rule_merge(DictGet(ret, "chunk_results"),
               [raised |-> FALSE, merged_data |-> <<>>,
                field_values |-> <<>>, field_occurrences |-> <<>>])

\* the per-field confidence maps of the chunk results
ChunkConfidenceMaps ==
    [i \in 1..Len(DictGet(ret, "chunk_results")) |->
        DictGet(DictGet(DictGet(ret, "chunk_results")[i], "confidence"), "fields")]

\* C22: the data the chunked strategy returns is the merge of all chunk
\* outputs, in processing order, by the Result Merger's field-level conflict
\* rules (whenever that merge is defined), and the returned per-field
\* confidence map is the union of the chunks' maps.
C22_ChunkedMergeByRules ==
    ChunkedReturned =>
      /\ ~RuleMerged.raised =>
            SeqRange(flatten_dict(DictGet(ret, "data")))
                = SeqRange(flatten_dict(RuleMerged.merged_data))
      /\ LET fields == DictGet(DictGet(ret, "confidence"), "fields")
         IN /\ SeqRange(DictKeys(fields))
                  = UNION {SeqRange(DictKeys(ChunkConfidenceMaps[i])) :
                              i \in 1..Len(ChunkConfidenceMaps)}
            /\ \A k \in 1..Len(fields) :
                  \E i \in 1..Len(ChunkConfidenceMaps) :
                      /\ DictHas(ChunkConfidenceMaps[i], fields[k][1])
                      /\ DictGet(ChunkConfidenceMaps[i], fields[k][1]) = fields[k][2]

\* what extract_complex keeps of C22: the returned confidence map is the
\* union of the chunks' maps, the entry of a field being that of the last
\* chunk that reported it
C22_ChunkedMergeLastWins ==
    ChunkedReturned =>
      LET fields == DictGet(DictGet(ret, "confidence"), "fields")
      IN /\ SeqRange(DictKeys(fields))
               = UNION {SeqRange(DictKeys(ChunkConfidenceMaps[i])) :
                           i \in 1..Len(ChunkConfidenceMaps)}
         /\ \A k \in 1..Len(fields) :
               \E i \in 1..Len(ChunkConfidenceMaps) :
                   /\ DictHas(ChunkConfidenceMaps[i], fields[k][1])
                   /\ DictGet(ChunkConfidenceMaps[i], fields[k][1]) = fields[k][2]
                   /\ \A j \in (i + 1)..Len(ChunkConfidenceMaps) :
                         ~DictHas(ChunkConfidenceMaps[j], fields[k][1])

\* get_extraction_order has returned
Ordered == pc = "ordered"

FieldDeps(f) == DependsOn(f) \cap FlatPathsOf(schema)

RECURSIVE ReachWithin(_, _)
\* the fields reached from those of S by at most n more dependency steps
ReachWithin(S, n) ==
    IF n = 0 THEN S
    ELSE ReachWithin(S \cup UNION {FieldDeps(g) : g \in S}, n - 1)

\* no field depends on itself, directly or through other fields
Acyclic ==
    \A f \in FlatPathsOf(schema) :
        f \notin ReachWithin(FieldDeps(f), Cardinality(FlatPathsOf(schema)))

\* the place of a field in the returned order
PlaceOf(f) == CHOOSE i \in 1..Len(order) : order[i] = f

\* the sequence index of the chunk that holds a field
ChunkIdOf(f) ==
    chunks[CHOOSE i \in 1..Len(chunks) : f \in FlatPathsOf(chunks[i].schema)].chunk_id

\* C24: for a schema whose dependency graph is acyclic, the order returned by
\* get_extraction_order puts every field after every field of the schema it
\* depends on, and in the chunks of chunk_schema no dependency of a field
\* lies in a chunk with a larger sequence index than the field's chunk.
C24_TopologicalOrder ==
    Acyclic =>
      /\ Ordered =>
            \A f \in FlatPathsOf(schema) : \A d \in FieldDeps(f) :
                PlaceOf(d) < PlaceOf(f)
      /\ pc = "chunked" =>
            \A f \in FlatPathsOf(schema) : \A d \in FieldDeps(f) :
                ChunkIdOf(d) <= ChunkIdOf(f)

\* an acyclic schema is split into chunks, and a field declared before the
\* field it depends on lies in a later chunk than that field
C24_Witness ==
    /\ pc = "chunked"
    /\ Acyclic
    /\ Len(chunks) >= 2
    /\ \E i, j \in 1..Len(flatten_schema(schema, <<>>)) :
          /\ i < j
          /\ flatten_schema(schema, <<>>)[j][1] \in FieldDeps(flatten_schema(schema, <<>>)[i][1])
          /\ ChunkIdOf(flatten_schema(schema, <<>>)[j][1])
                < ChunkIdOf(flatten_schema(schema, <<>>)[i][1])

\* the dependencies of the members of chunk i that are no members of it
OutsideDeps(i) ==
    UNION {DependsOn(f) : f \in FlatPathsOf(chunks[i].schema)}
        \ FlatPathsOf(chunks[i].schema)

\* the schema does not fit the budget of chunk_schema
OverBudget == estimate_schema_tokens(schema) > max_tokens_per_chunk

\* C25 as stated: the dependency set of every chunk chunk_schema returns is
\* exactly the set of dependencies of its member fields that are not
\* themselves members of the chunk.
C25_DependenciesOfEveryChunk ==
    pc = "chunked" =>
      \A i \in 1..Len(chunks) : chunks[i].dependencies = OutsideDeps(i)

\* C25, amended: when the schema does not fit the budget, the dependency set
\* of every chunk is exactly the set of dependencies of its member fields
\* that are not themselves members of the chunk: it is disjoint from the
\* chunk's own fields and omits no dependency of a member outside the chunk.
C25_DependenciesOfBuiltChunks ==
    (pc = "chunked" /\ OverBudget) =>
      \A i \in 1..Len(chunks) :
          /\ chunks[i].dependencies = OutsideDeps(i)
          /\ chunks[i].dependencies \cap FlatPathsOf(chunks[i].schema) = {}

\* a chunk of a schema over budget has a member that depends on another
\* member and a member that depends on a field of another chunk
C25_Witness ==
    /\ pc = "chunked"
    /\ OverBudget
    /\ \E i \in 1..Len(chunks) :
          /\ \E f, d \in FlatPathsOf(chunks[i].schema) : f # d /\ d \in DependsOn(f)
          /\ \E f \in FlatPathsOf(chunks[i].schema) :
                \E d \in DependsOn(f) \cap FlatPathsOf(schema) :
                    d \in chunks[i].dependencies

\* the chunk the k-th oracle call of extract_complex was issued for
ChunkOfCall(k) == CHOOSE c \in SeqRange(chunks) : c.chunk_id = calls[k].unit

\* the oracle calls of the chunked strategy issued so far
ComplexCalls == IF pc = "complex" THEN 1..Len(calls) ELSE {}

\* C26: in the chunked strategy, when a schema chunk is processed every field
\* of its declared dependency set that is a field of the schema belongs to a
\* chunk processed earlier, so that when no earlier call failed the context
\* holds the extracted value of each declared dependency; the context holds
\* no path outside the declared dependency set.
C26_DependenciesProcessedEarlier ==
    \A k \in ComplexCalls :
        /\ \A d \in ChunkOfCall(k).dependencies \cap FlatPathsOf(schema) :
              \E j \in 1..(k - 1) : d \in calls[j].fields
        /\ (\A j \in 1..(k - 1) :
                FailsAt(calls[j].reply) = "" /\ calls[j].reply.content = "fill_text")
              => \A d \in ChunkOfCall(k).dependencies \cap FlatPathsOf(schema) :
                    DictHas(calls[k].context, d)
        /\ SeqRange(DictKeys(calls[k].context)) \subseteq ChunkOfCall(k).dependencies

\* C26, the part that holds: the context of a chunk's call holds no path
\* outside the chunk's declared dependency set.
C26_ContextWithinDependencies ==
    \A k \in ComplexCalls :
        SeqRange(DictKeys(calls[k].context)) \subseteq ChunkOfCall(k).dependencies

RECURSIVE DictSame(_, _)
\* d1 == d2 of Python for dicts: the same keys with the same values, in any
\* order
DictSame(d, e) ==
    /\ SeqRange(DictKeys(d)) = SeqRange(DictKeys(e))
    /\ \A k \in SeqRange(DictKeys(d)) :
          LET x == DictGet(d, k)
              y == DictGet(e, k)
          IN IF IsDict(x) /\ IsDict(y) THEN DictSame(x.v, y.v)
             ELSE x.t = y.t /\ x = y

\* C27: merge_dicts_deep is associative: merge(merge(a, b), c) equals
\* merge(a, merge(b, c)) for all nested dicts a, b, c, also when a key holds
\* an object in one of them and a plain value in another.
C27_DeepMergeAssociative ==
    /\ pc = "merged_left" =>
          DictSame(ret, merge_dicts_deep(merge_operands[1],
                            merge_dicts_deep(merge_operands[2], merge_operands[3])))
    /\ pc = "merged_right" =>
          DictSame(ret, merge_dicts_deep(
                            merge_dicts_deep(merge_operands[1], merge_operands[2]),
                            merge_operands[3]))

\* no key holds an object in one of the three dicts and a plain value in
\* another
SameShapes ==
    \A i, j \in 1..3 :
        (DictHas(merge_operands[i], "k") /\ DictHas(merge_operands[j], "k"))
          => IsDict(DictGet(merge_operands[i], "k"))
                = IsDict(DictGet(merge_operands[j], "k"))

\* C27, the part that holds: the two groupings agree whenever no key holds
\* an object in one dict and a plain value in another.
C27_AssociativeOnSameShapes ==
    (pc = "merged_left" /\ SameShapes) =>
        DictSame(ret, merge_dicts_deep(merge_operands[1],
                          merge_dicts_deep(merge_operands[2], merge_operands[3])))

Analyzed == pc = "analyzed"

\* C28: the object count of a schema is at least its max depth; hence a max
\* depth above 1 comes with an object count above 1, a schema of depth 1 or
\* more never has object count 0, and when the token estimate is within the
\* budget the hierarchical strategy is chosen exactly when the object count
\* is above 1.
C28_ObjectCountAtLeastDepth ==
    Analyzed =>
      LET m == analysis.metrics
      IN /\ m.max_depth = calculate_schema_depth(schema, 0)
         /\ m.object_count = count_schema_objects(schema)
         /\ m.object_count >= m.max_depth
         /\ m.max_depth > 1 => m.object_count > 1
         /\ m.max_depth >= 1 => m.object_count # 0
         /\ m.estimated_tokens <= max_tokens_per_chunk =>
               (analysis.strategy = "multi_pass_hierarchical" <=> m.object_count > 1)

\* a schema within the budget with an object inside an object: depth 2, two
\* objects, hierarchical
C28_Witness ==
    /\ Analyzed
    /\ analysis.metrics.max_depth = 2
    /\ analysis.metrics.object_count = 2
    /\ analysis.metrics.estimated_tokens <= max_tokens_per_chunk
    /\ analysis.strategy = "multi_pass_hierarchical"

\* a schema whose object count is above its depth
C28_MoreObjectsThanDepth ==
    /\ Analyzed
    /\ analysis.metrics.max_depth = 1
    /\ analysis.metrics.object_count > 1

\* the estimate _create_dependency_chunks makes for one field of the schema
FieldTokens(field_path) ==
    estimate_field_tokens(field_path, get_field_schema(schema, field_path))

RECURSIVE SumFieldTokens(_)
SumFieldTokens(field_paths) ==
    IF field_paths = <<>> THEN 0
    ELSE FieldTokens(field_paths[1]) + SumFieldTokens(Tail(field_paths))

\* the sum of the estimates of the members of chunk i
ChunkTokens(i) == SumFieldTokens(DictKeys(flatten_schema(chunks[i].schema, <<>>)))

\* C29: when the schema does not fit the budget, every chunk is non-empty,
\* the sequence indices are 0..n-1 in construction order, every chunk carries
\* the total count n, and the token estimates of a chunk's members sum to at
\* most the budget unless the chunk is a single field whose own estimate
\* exceeds the budget.
C29_ChunksOfSegmenter ==
    (pc = "chunked" /\ OverBudget) =>
      \A i \in 1..Len(chunks) :
          /\ FlatPathsOf(chunks[i].schema) # {}
          /\ chunks[i].chunk_id = i - 1
          /\ chunks[i].total_chunks = Len(chunks)
          /\ \/ ChunkTokens(i) <= max_tokens_per_chunk
             \/ Cardinality(FlatPathsOf(chunks[i].schema)) = 1

\* several chunks: one of two fields or more within the budget, one of a
\* single field above the budget
C29_Witness ==
    /\ pc = "chunked"
    /\ OverBudget
    /\ Len(chunks) >= 2
    /\ \E i \in 1..Len(chunks) :
          /\ Cardinality(FlatPathsOf(chunks[i].schema)) >= 2
          /\ ChunkTokens(i) <= max_tokens_per_chunk
    /\ \E i \in 1..Len(chunks) :
          /\ Cardinality(FlatPathsOf(chunks[i].schema)) = 1
          /\ ChunkTokens(i) > max_tokens_per_chunk

\* what the n-th oracle call of the running strategy returned, parsed
OutputOf(n) ==
    ReplyData(calls[n].reply,
              IF Strategy = "multi_pass_hierarchical"
              THEN build_level_schema(schema, levels[n][2])
              ELSE ChunkOfCall(n).schema)

RECURSIVE MergedOutputs(_, _)
\* the deep merge, in processing order, of the outputs of the first n calls
\* that did not fail at one of the given stages
MergedOutputs(n, stages) ==
    IF n = 0 THEN <<>>
    ELSE IF FailsAt(calls[n].reply) \in stages THEN MergedOutputs(n - 1, stages)
    ELSE merge_dicts_deep(MergedOutputs(n - 1, stages), OutputOf(n))

RECURSIVE ReportedUsage(_, _)
\* the usage reported by the first n calls that did not fail at one of the
\* given stages
ReportedUsage(n, stages) ==
    IF n = 0 THEN 0
    ELSE (IF FailsAt(calls[n].reply) \in stages THEN 0
          ELSE usage_tokens(calls[n].reply))
         + ReportedUsage(n - 1, stages)

\* the result is made of the calls that did not fail at one of the stages
MadeOfSuccessfulCalls(stages) ==
    /\ DictSame(DictGet(ret, "data"), MergedOutputs(Len(calls), stages))
    /\ DictGet(ret, "token_usage") = ReportedUsage(Len(calls), stages)

MultiPassReturned ==
    /\ pc = "returned"
    /\ Strategy \in {"multi_pass_hierarchical", "multi_pass_chunked"}

\* C30: in the hierarchical and chunked strategies a failed call leaves the
\* accumulated data, the confidence map and the token counter as they were,
\* so the final data is the deep merge, in processing order, of the outputs
\* of the successful calls only and the final token usage is the sum of the
\* usage those calls reported.  A call counts as failed either when the pass
\* of the loop ends in its except clause or, more narrowly, when the call
\* raised or returned no JSON; the statement is taken to hold when it holds
\* for one of the two.
C30_FailedCallsLeaveNoTrace ==
    MultiPassReturned =>
        \/ MadeOfSuccessfulCalls({"call", "parse", "score"})
        \/ MadeOfSuccessfulCalls({"call", "parse"})

\* C30, the part that holds for the chunked strategy: a chunk whose pass
\* ends in the except clause leaves previous_results and total_tokens as
\* they were and adds an entry with empty data and no field confidences.
C30_FailedChunkKeepsAccumulators ==
    [][(pc = "complex" /\ Len(calls') = Len(calls) + 1
          /\ FailsAt(calls'[Len(calls')].reply) # "")
        => /\ result' = result
           /\ total_tokens' = total_tokens
           /\ DictGet(results'[Len(results')], "data") = <<>>
           /\ DictGet(DictGet(results'[Len(results')], "confidence"), "fields") = <<>>]_vars

\* C30, the part that holds for both strategies: a call that raises or
\* returns no JSON leaves the accumulated data, the confidence map and the
\* token counter as they were.
C30_FailedCallKeepsAccumulators ==
    [][(pc \in {"hierarchical", "complex"} /\ Len(calls') = Len(calls) + 1
          /\ FailsAt(calls'[Len(calls')].reply) \in {"call", "parse"})
        => /\ result' = result
           /\ confidence_scores' = confidence_scores
           /\ total_tokens' = total_tokens]_vars

====
